---------------------------- MODULE Spec2Model ----------------------------
(***************************************************************************)
(* A model of the post-processing pipeline of Heyana/postprocessing:       *)
(*   - EffectComposer.render, the pass loop with its buffer swap           *)
(*     (src/unnamed/part_001);                                             *)
(*   - OutlineManager and SharedOutlineEffect, the shared depth/mask       *)
(*     resources and their layered consumers                               *)
(*     (src/src/effects/OutlineManager.js, src/unnamed/part_002);          *)
(*   - Selection.setVisible (src/build-dts.js);                            *)
(*   - DepthPickingPass (src/unnamed/part_007);                            *)
(*   - PerformanceLogger (src/unnamed/part_006);                           *)
(*   - OutlineMultiEffect and OutlineEffect                                *)
(*     (src/src/effects/OutlineMultiEffect.js, src/unnamed/part_009).      *)
(* Each component has its own specifications over the shared variables.    *)
(***************************************************************************)
EXTENDS Integers, Sequences, FiniteSets, TLC

VARIABLES
    \* ---- EffectComposer ----
    passes,            \* this.passes: a sequence of pass records
    hasRenderer,       \* this.renderer !== null
    useMRT,            \* this._useMRT
    mrtRenderPass,     \* this._mrtRenderPass !== null
    sharedDepthPass,   \* this._sharedDepthPass !== null (its texture is valid)
    stencilTest,       \* this.stencilTest: "undefined", "true" or "false"
    rpc,               \* position of render(): "idle" or "loop"
    ri,                \* render(): the loop index i (1-based)
    rin,               \* render(): local inputBuffer
    rout,              \* render(): local outputBuffer
    depthPassIndex,    \* render(): local depthPassIndex (0 for -1)
    skipDepthPass,     \* render(): local skipDepthPass
    validSharedDepth,  \* render(): local validSharedDepth
    calls,             \* the pass.render calls of the current render(), in order
    escaped,           \* an exception left the last render()
    passIds,           \* this.passes: the identity of each pass object
    depthTexture,      \* this.depthTexture: NoTexture or a texture id
    passTexture,       \* pass.getDepthTexture() of every pass object
    liveTextures,      \* the DepthTextures created and not yet disposed
    texturesCreated,   \* the number of DepthTextures created so far
    lastOp,            \* the latest call that changed the pass list, and the list,
                       \* the texture and the probe result it found
    bufferSize,        \* renderer.getDrawingBufferSize()
    renderToScreen,    \* pass.renderToScreen of every pass object
    autoRenderToScreen, \* this.autoRenderToScreen
    \* ---- OutlineManager ----
    variant,           \* "js": the update() with the dedup token; "ts": the one without
    selectionsByLayer, \* this.selectionsByLayer: layer id -> set of objects
    selectionIds,      \* this.selectionsByLayer: layer id -> the Selection object
    selectionsCreated, \* the number of Selection objects the manager has created
    needsUpdate,       \* this.needsUpdate
    currentLayer,      \* this.currentLayer: Null or a layer id
    depthStamped,      \* OutlineManager.lastDepthPassTime is set (static)
    sinceDepthPass,    \* Date.now() - OutlineManager.lastDepthPassTime in ms, capped
                       \* above the window; 0 while the static is undefined
    background,        \* scene.background
    cameraMask,        \* camera.layers.mask, as the set of enabled layers
    visible,           \* object.visible
    initialVisible,    \* object.userData.initialVisible
    \* ---- SharedOutlineEffect ----
    selection,         \* this.selection of each consumer
    selectionLayer,    \* this._selectionLayer of each consumer
    blurEnabled,       \* this.blurPass.enabled of each consumer
    updateCounter,     \* SharedOutlineEffect.updateCounter (static)
    activeObjects,     \* SharedOutlineEffect.activeObjects (static)
    \* ---- the frame and the calls observed ----
    frameOpen,         \* a frame (one composer.render) is in progress
    updated,           \* the consumers whose update() was called in this frame
    frameLog,          \* the renders and clean-ups of the current frame, in order
    throwsLeft,        \* render failures still to be injected
    lastUpdate,        \* the most recent manager.update() call: state before, after
    lastClear,         \* the most recent clearUnused() call: arguments, before, after
    \* ---- DepthPickingPass ----
    pickMode,          \* this.fullscreenMaterial.mode: "SINGLE" or "FULL"
    texelPosition,     \* twice this.fullscreenMaterial.texelPosition.x
    callback,          \* this.callback: 0 for null, or the promise it resolves
    promises,          \* for each promise readDepth returned, in order, the
                       \* number of times its resolve function was called
    lastPick,          \* what the latest render() did, if no readDepth followed
    \* ---- Selection.setVisible, as the host calls it ----
    lastCycle,         \* the latest setVisible(false) of a selection and the visible flags it found
    \* ---- PerformanceLogger ----
    logger,            \* the PerformanceLogger singleton: its fields, the console methods called, and whether enable() was ever called
    \* ---- OutlineEffect and OutlineMultiEffect ----
    outline,           \* the OutlineEffect: its selection, forceUpdate, and what its latest update() rendered
    multi              \* the OutlineMultiEffect: layerObjectsMap, the objects' layers, forceUpdate, its latest call and what the latest update() rendered

composerVars == <<passes, hasRenderer, useMRT, mrtRenderPass, sharedDepthPass,
                  stencilTest, rpc, ri, rin, rout, depthPassIndex,
                  skipDepthPass, validSharedDepth, calls, escaped, passIds,
                  depthTexture, passTexture, liveTextures, texturesCreated,
                  lastOp, bufferSize, renderToScreen,
                  autoRenderToScreen>>

\* The pass objects' identity and the shared depth texture.
depthVars == <<passIds, depthTexture, passTexture, liveTextures,
               texturesCreated, lastOp>>

\* The renderer's size and the render-to-screen flags.
screenVars == <<bufferSize, renderToScreen, autoRenderToScreen>>

managerVars == <<variant, selectionsByLayer, selectionIds, selectionsCreated,
                 needsUpdate, currentLayer,
                 depthStamped, sinceDepthPass, background, cameraMask, visible,
                 initialVisible, selection, selectionLayer, blurEnabled,
                 updateCounter, activeObjects, frameOpen, updated, frameLog,
                 throwsLeft, lastUpdate, lastClear>>

pickVars == <<pickMode, texelPosition, callback, promises, lastPick>>

cycleVars == <<lastCycle>>

loggerVars == <<logger>>

effectVars == <<outline, multi>>

vars == <<composerVars, managerVars, pickVars, cycleVars, loggerVars, effectVars>>

---------------------------------------------------------------------------
(* Bounds and value sets.                                                  *)

MaxPasses == 3

Undefined == "undefined"

\* The two ping-pong buffers of the composer.
InputBufferId == "inputBuffer"
OutputBufferId == "outputBuffer"

PassKinds ==
    {"Pass", "RenderPass", "EffectPass", "DepthPass", "MRTRenderPass",
     "MaskPass"}

\* A pass as render() reads it: its class, enabled, needsSwap and, for a
\* MaskPass, clearPass.enabled.  A disabled pass is read only for its class
\* (the depthPassIndex scan), so two disabled passes stand for all of them;
\* render() has no branch for a RenderPass, "Pass" stands for it here.
EnabledPasses ==
    [kind : PassKinds \ {"MaskPass", "RenderPass"}, enabled : {TRUE},
     needsSwap : BOOLEAN, clearPassEnabled : {FALSE}]
    \cup
    [kind : {"MaskPass"}, enabled : {TRUE},
     needsSwap : BOOLEAN, clearPassEnabled : BOOLEAN]

DisabledPasses ==
    [kind : {"Pass", "DepthPass"}, enabled : {FALSE},
     needsSwap : {TRUE}, clearPassEnabled : {FALSE}]

PassAlphabet == EnabledPasses \cup DisabledPasses

\* The MRT pass enters the list through addPass' substitution of the first
\* pass only.
PassLists ==
    UNION {{s \in [1..n -> PassAlphabet] :
              \A k \in 2..n : s[k].kind # "MRTRenderPass"} : n \in 0..MaxPasses}

\* (_useMRT, _mrtRenderPass, _sharedDepthPass) as setMRTRenderPass and
\* _checkMRTSupport leave them.
MRTStates ==
    {<<FALSE, FALSE, FALSE>>, <<TRUE, FALSE, FALSE>>,
     <<TRUE, TRUE, FALSE>>, <<TRUE, TRUE, TRUE>>}

\* this.depthTexture === null; a texture is identified by its creation
\* number 1, 2, ...
NoTexture == 0

\* DepthTextures that createDepthTexture may allocate in one run.
MaxTextures == 2

\* The pass objects the host adds and removes: the scene's RenderPass, two
\* EffectPasses that read depth, the second one disabled, and the
\* MRTRenderPass that addPass puts in place of the RenderPass.
PassPool == {"scene", "fx1", "fx2"}

MRTPassId == "mrt"

\* A pass of SpecRender's lists, whose identity is not followed.
Anonymous == "anonymous"

PassObjects == PassPool \cup {MRTPassId, Anonymous}

\* The cap of the count of probe runs kept with a call.
MaxProbes == 2

\* setRenderer's argument: null, a renderer without and one with
\* multi-target support; and the drawing-buffer sizes of renderers.
Renderers == {"none", "plain", "mrt"}

BufferSizes == {1, 2}

\* No entry was added by a call.
NoEntry == [pass |-> Anonymous, size |-> 0, initialized |-> FALSE]

NoOp ==
    [op |-> "none", pass |-> Anonymous, ids |-> <<>>, texture |-> NoTexture,
     index |-> 0, tried |-> FALSE, entry |-> NoEntry, log |-> <<>>,
     probed |-> 0]

\* The record of a call kept in lastOp: the call, its pass argument, the
\* list and the texture it found; for addPass the index, whether
\* setMRTRenderPass was called and the entry added; for dispose the
\* dispose calls it made; probed counts the runs of the capability probe
\* in the call and in the render() calls after it.
Op(name, p, ids, dt) ==
    [op |-> name, pass |-> p, ids |-> ids, texture |-> dt,
     index |-> 0, tried |-> FALSE, entry |-> NoEntry, log |-> <<>>,
     probed |-> 0]

\* pass.needsDepthTexture
NeedsDepthTexture(p) == p \in {"fx1", "fx2"}

\* The pass object as render() reads it.
PoolRecord(p) ==
    [kind |-> IF p = "scene" THEN "RenderPass"
              ELSE IF p = MRTPassId THEN "MRTRenderPass" ELSE "EffectPass",
     enabled |-> p # "fx2",
     needsSwap |-> p # "scene",
     clearPassEnabled |-> FALSE]

---------------------------------------------------------------------------
(* Value sets of the outline manager and its consumers.                    *)

Null == "null"

\* Render failures injected in one run.
MaxThrows == 1

\* The cap of SharedOutlineEffect.updateCounter, which grows without bound
\* once an update() has thrown before the counter was reset.
MaxUpdateCounter == 3

\* The layer of a Selection constructed without a layer argument.
DefaultLayer == "layer0"

\* this.selection, the first Selection the manager creates.
DefaultSelection == 1

\* The frame interval assumed by the dedup token, in ms.
DedupWindow == 16

\* The frame count at which SharedOutlineEffect.update runs the clean-up.
CleanupCount == 2

Objects == {"o1", "o2"}

Consumers == {"red", "blue"}

\* The objects the host offers to each consumer: one both can select and
\* one only the first can, as the demo's actors are shared in part.
Selectable == [red |-> {"o1", "o2"}, blue |-> {"o1"}]

\* The layers the shared-outline demo gives its two consumers.
DemoLayers == [red |-> "layer21", blue |-> "layer22"]

Layers == {DefaultLayer} \cup {DemoLayers[c] : c \in Consumers}

\* Elapsed times between two observations of Date.now(): the two values a
\* 60 Hz frame (16.67 ms) gives, one inside the window and one beyond it.
TickSteps == {DedupWindow, DedupWindow + 1}

Failures == {"none", "depth", "mask"}

NoUpdate ==
    [outcome |-> "none", caller |-> Null, cur |-> Null, curSel |-> {},
     depth |-> FALSE, maskLayers |-> <<>>,
     preBg |-> Null, preCam |-> {}, preVis |-> {},
     postBg |-> Null, postCam |-> {}, postVis |-> {},
     preNeeds |-> FALSE, preObjects |-> FALSE, renders |-> 0,
     unchanged |-> TRUE]

NoClear ==
    [called |-> FALSE, active |-> {}, exceptLayer |-> Undefined,
     before |-> <<>>, after |-> <<>>]

\* The consumers and the frame after new OutlineManager(scene, camera) and
\* two new SharedOutlineEffect(manager) with their layers set.
ConsumersConstructed(v) ==
    /\ variant = v
    /\ currentLayer = Null
    /\ depthStamped = FALSE
    /\ sinceDepthPass = 0
    /\ background = "sky"
    /\ cameraMask = {DefaultLayer}
    /\ visible = [o \in Objects |-> TRUE]
    /\ initialVisible = [o \in Objects |-> Undefined]
    /\ selection = [c \in Consumers |-> {}]
    /\ selectionLayer = DemoLayers
    /\ blurEnabled = [c \in Consumers |-> c = "red"]
    /\ updateCounter = 0
    /\ frameOpen = FALSE
    /\ updated = {}
    /\ frameLog = <<>>
    /\ throwsLeft = MaxThrows
    /\ lastUpdate = NoUpdate
    /\ lastClear = NoClear

\* What a render() of the picking pass did: the full-screen copies, the
\* pixel read-backs with their x coordinate, the promises resolved.
NoPick == [called |-> FALSE, copies |-> 0, readBacks |-> <<>>,
           resolved |-> <<>>]

\* The timer labels the callers use.
Labels == {"update", "render"}

\* A bound for the model: the samples kept per label.
MaxSamples == 2

\* The console methods the logger calls.
ConsoleMethods == {"time", "timeEnd", "log", "warn", "error", "group"}

\* The module constant theEnabled, the constructor's default for enabled.
theEnabled == TRUE

\* new PerformanceLogger(), as getInstance() creates the singleton.
LoggerConstructed ==
    logger = [enabled |-> theEnabled,
              collectTimes |-> FALSE,
              timers |-> {},
              timeData |-> [l \in Labels |-> 0],
              console |-> {},
              enableCalled |-> FALSE]

\* options.layers of the OutlineMultiEffect: the default.
MultiLayers == <<20, 21, 22>>

\* The layerIndex arguments the host passes: the three colours and one
\* index on either side of the range.
LayerIndexes == -1..Len(MultiLayers)

\* A bound for the model: the update() calls followed after the selection
\* has become empty.
MaxIdleUpdates == 3

\* No call yet, and an update() that rendered nothing.
NoCall == [name |-> "none", object |-> "null", index |-> 0, before |-> {}]

NoRenders == [depth |-> FALSE, mask |-> <<>>, edge |-> <<>>, blur |-> FALSE]

\* What is followed after a removal has emptied the selection: the
\* update() calls since, and those of them that rendered.
NotEmptied == [emptied |-> FALSE, updates |-> 0, renders |-> 0]

\* new OutlineEffect(scene, camera, { blur })
OutlineConstructed(blur) ==
    outline = [selection |-> {},
               saved |-> {},
               forceUpdate |-> TRUE,
               blur |-> blur,
               called |-> FALSE,
               pre |-> [force |-> FALSE, selected |-> FALSE],
               renders |-> NoRenders,
               idle |-> NotEmptied]

\* new OutlineMultiEffect(scene, camera, { blur })
MultiConstructed(blur) ==
    multi = [layerObjectsMap |-> [k \in DOMAIN MultiLayers |-> {}],
             objectLayers |-> [o \in Objects |-> {0}],
             forceUpdate |-> TRUE,
             blur |-> blur,
             op |-> NoCall,
             pre |-> [force |-> FALSE, selected |-> FALSE],
             renders |-> NoRenders,
             idle |-> NotEmptied]

\* A page that creates neither an OutlineEffect nor an OutlineMultiEffect.
NoEffects == outline = Null /\ multi = Null

\* No setVisible(false) is being followed.
NoCycle == [phase |-> "none", layer |-> "null", before |-> <<>>]

CycleIdle == lastCycle = NoCycle

\* new DepthPickingPass({ mode })
PickingConstructed(mode) ==
    /\ pickMode = mode
    /\ texelPosition = 0
    /\ callback = 0
    /\ promises = <<>>
    /\ lastPick = NoPick

\* A page that creates no OutlineManager and no SharedOutlineEffect.
NoManager ==
    /\ variant = Null
    /\ selectionsByLayer = Null
    /\ selectionIds = Null
    /\ selectionsCreated = Null
    /\ needsUpdate = Null
    /\ currentLayer = Null
    /\ depthStamped = Null
    /\ sinceDepthPass = Null
    /\ background = Null
    /\ cameraMask = Null
    /\ visible = Null
    /\ initialVisible = Null
    /\ selection = Null
    /\ selectionLayer = Null
    /\ blurEnabled = Null
    /\ updateCounter = Null
    /\ activeObjects = Null
    /\ frameOpen = Null
    /\ updated = Null
    /\ frameLog = Null
    /\ throwsLeft = Null
    /\ lastUpdate = Null
    /\ lastClear = Null

\* The manager after its constructor: the default selection only.
ManagerConstructed(v) ==
    /\ selectionsByLayer = [l \in {DefaultLayer} |-> {}]
    /\ selectionIds = [l \in {DefaultLayer} |-> DefaultSelection]
    /\ selectionsCreated = 1
    /\ needsUpdate = TRUE
    /\ activeObjects = {}
    /\ ConsumersConstructed(v)

\* The state after new EffectComposer(renderer), no pass added.
ComposerConstructed ==
    /\ passes = <<>>
    /\ hasRenderer = TRUE
    /\ useMRT = FALSE
    /\ mrtRenderPass = FALSE
    /\ sharedDepthPass = FALSE
    /\ stencilTest = Undefined
    /\ rpc = "idle"
    /\ ri = 1
    /\ rin = InputBufferId
    /\ rout = OutputBufferId
    /\ depthPassIndex = 0
    /\ skipDepthPass = FALSE
    /\ validSharedDepth = FALSE
    /\ calls = <<>>
    /\ escaped = FALSE
    /\ passIds = <<>>
    /\ depthTexture = NoTexture
    /\ passTexture = [p \in PassObjects |-> NoTexture]
    /\ liveTextures = {}
    /\ texturesCreated = 0
    /\ lastOp = NoOp
    /\ bufferSize = 1
    /\ renderToScreen = [p \in PassObjects |-> FALSE]
    /\ autoRenderToScreen = TRUE

---------------------------------------------------------------------------
(* EffectComposer.render                                                   *)

\* The index of the first DepthPass of the list, 0 when there is none.
RECURSIVE FirstDepthPass(_, _)
FirstDepthPass(list, i) ==
    IF i > Len(list) THEN 0
    ELSE IF list[i].kind = "DepthPass" THEN i
    ELSE FirstDepthPass(list, i + 1)

\* What the loop does after pass.render: the try/catch swallows a throw.
AfterRenderNoCatch(threw) == IF threw THEN "abort" ELSE "continue"

AfterRender(threw) == "continue"

\* The buffer pair for the next pass.
NextBuffersNoSwap(pass, input, output) == <<input, output>>

NextBuffersAlwaysSwap(pass, input, output) == <<output, input>>

NextBuffers(pass, input, output) ==
    IF pass.needsSwap THEN <<output, input>> ELSE <<input, output>>

\* The values this.stencilTest is assigned.
StencilOn == "true"
StencilOff == "false"

\* this.stencilTest after a pass.
NextStencil(pass, stencil) ==
    IF pass.kind = "MaskPass"
    THEN IF pass.enabled /\ ~pass.clearPassEnabled THEN StencilOn
         ELSE IF pass.clearPassEnabled THEN StencilOff
         ELSE stencil
    ELSE stencil

\* _updateSharedDepthPass: succeeds when both MRT resources exist.
UpdateSharedDepthPass == mrtRenderPass /\ sharedDepthPass

\* _checkMRTSupport(renderer): the recorded result and the MRT resources;
\* supported is the outcome of the probe of the renderer.
CheckMRTSupport(supported, mrt, shared) ==
    [useMRT |-> supported,
     mrtRenderPass |-> IF ~supported /\ (mrt \/ shared) THEN FALSE ELSE mrt,
     sharedDepthPass |-> IF ~supported /\ (mrt \/ shared) THEN FALSE
                         ELSE shared]

\* render(): the test that re-runs the capability probe.
RenderProbesAlways(mrt) == TRUE

RenderProbes(mrt) == mrt \notin BOOLEAN

\* render() up to the loop: the renderer check, the probe of a composer
\* whose _useMRT is undefined, the locals.
RenderBegin ==
    /\ rpc = "idle"
    /\ escaped' = FALSE
    /\ calls' = <<>>
    /\ IF ~hasRenderer
       THEN UNCHANGED <<rpc, ri, rin, rout, depthPassIndex, skipDepthPass,
                        validSharedDepth, useMRT, mrtRenderPass,
                        sharedDepthPass, lastOp>>
       ELSE /\ IF RenderProbes(useMRT)
               THEN \E supported \in BOOLEAN :
                      LET c == CheckMRTSupport(supported, mrtRenderPass,
                                               sharedDepthPass)
                      IN
                      /\ useMRT' = c.useMRT
                      /\ mrtRenderPass' = c.mrtRenderPass
                      /\ sharedDepthPass' = c.sharedDepthPass
                      /\ lastOp' = [lastOp EXCEPT !.probed =
                                      IF @ < MaxProbes THEN @ + 1 ELSE @]
               ELSE UNCHANGED <<useMRT, mrtRenderPass, sharedDepthPass,
                                lastOp>>
            /\ rpc' = "loop"
            /\ ri' = 1
            /\ rin' = InputBufferId
            /\ rout' = OutputBufferId
            /\ depthPassIndex' = FirstDepthPass(passes, 1)
            /\ validSharedDepth' = sharedDepthPass'
            /\ skipDepthPass' =
                 (useMRT' /\ FirstDepthPass(passes, 1) # 0
                    /\ sharedDepthPass')
    /\ UNCHANGED <<passes, hasRenderer, stencilTest>>
    /\ UNCHANGED <<passIds, depthTexture, passTexture, liveTextures,
                   texturesCreated>>
    /\ UNCHANGED screenVars
    /\ UNCHANGED managerVars
    /\ UNCHANGED pickVars
    /\ UNCHANGED effectVars
    /\ UNCHANGED loggerVars
    /\ UNCHANGED cycleVars

\* One iteration of the loop that does not reach pass.render.
RenderSkip ==
    /\ rpc = "loop"
    /\ ri <= Len(passes)
    /\ LET pass == passes[ri] IN
         \/ ~pass.enabled
         \/ (skipDepthPass /\ ri = depthPassIndex)
         \/ (pass.kind = "MRTRenderPass" /\ ~useMRT)
    /\ ri' = ri + 1
    /\ UNCHANGED <<passes, hasRenderer, useMRT, mrtRenderPass,
                   sharedDepthPass, stencilTest, rpc, rin, rout,
                   depthPassIndex, skipDepthPass, validSharedDepth, calls,
                   escaped>>
    /\ UNCHANGED depthVars
    /\ UNCHANGED screenVars
    /\ UNCHANGED managerVars
    /\ UNCHANGED pickVars
    /\ UNCHANGED effectVars
    /\ UNCHANGED loggerVars
    /\ UNCHANGED cycleVars

\* One iteration of the loop that calls pass.render, which may throw; up
\* to MaxThrows pass.render calls of one render() throw.
RenderPassStep(threw) ==
    /\ rpc = "loop"
    /\ ri <= Len(passes)
    /\ threw =>
         Cardinality({c \in DOMAIN calls : calls[c].threw}) < MaxThrows
    /\ LET pass == passes[ri]
           call == [idx |-> ri, input |-> rin, output |-> rout,
                    stencil |-> stencilTest, threw |-> threw,
                    shared |-> (pass.kind = "EffectPass" /\ validSharedDepth)]
           next == NextBuffers(pass, rin, rout)
       IN
         /\ pass.enabled
         /\ ~(skipDepthPass /\ ri = depthPassIndex)
         /\ ~(pass.kind = "MRTRenderPass" /\ ~useMRT)
         /\ calls' = Append(calls, call)
         /\ IF AfterRender(threw) = "abort"
            THEN /\ escaped' = TRUE
                 /\ rpc' = "idle"
                 /\ UNCHANGED <<ri, rin, rout, validSharedDepth, stencilTest>>
            ELSE /\ escaped' = escaped
                 /\ rpc' = rpc
                 /\ ri' = ri + 1
                 /\ rin' = next[1]
                 /\ rout' = next[2]
                 /\ validSharedDepth' =
                      IF pass.kind = "MRTRenderPass" /\ ~threw
                         /\ UpdateSharedDepthPass
                      THEN TRUE
                      ELSE validSharedDepth
                 /\ stencilTest' = NextStencil(pass, stencilTest)
    /\ UNCHANGED <<passes, hasRenderer, useMRT, mrtRenderPass,
                   sharedDepthPass, depthPassIndex, skipDepthPass>>
    /\ UNCHANGED depthVars
    /\ UNCHANGED screenVars
    /\ UNCHANGED managerVars
    /\ UNCHANGED pickVars
    /\ UNCHANGED effectVars
    /\ UNCHANGED loggerVars
    /\ UNCHANGED cycleVars

\* The loop ends and render() returns.
RenderEnd ==
    /\ rpc = "loop"
    /\ ri > Len(passes)
    /\ rpc' = "idle"
    /\ UNCHANGED <<passes, hasRenderer, useMRT, mrtRenderPass,
                   sharedDepthPass, stencilTest, ri, rin, rout,
                   depthPassIndex, skipDepthPass, validSharedDepth, calls,
                   escaped>>
    /\ UNCHANGED depthVars
    /\ UNCHANGED screenVars
    /\ UNCHANGED managerVars
    /\ UNCHANGED pickVars
    /\ UNCHANGED effectVars
    /\ UNCHANGED loggerVars
    /\ UNCHANGED cycleVars

InitRender ==
    /\ passes \in PassLists
    /\ hasRenderer \in BOOLEAN
    /\ \E m \in MRTStates :
         /\ useMRT = m[1]
         /\ mrtRenderPass = m[2]
         /\ sharedDepthPass = m[3]
    /\ stencilTest = Undefined
    /\ rpc = "idle"
    /\ ri = 1
    /\ rin = InputBufferId
    /\ rout = OutputBufferId
    /\ depthPassIndex = 0
    /\ skipDepthPass = FALSE
    /\ validSharedDepth = FALSE
    /\ calls = <<>>
    /\ escaped = FALSE
    /\ passIds = [k \in DOMAIN passes |-> Anonymous]
    /\ depthTexture = NoTexture
    /\ passTexture = [p \in PassObjects |-> NoTexture]
    /\ liveTextures = {}
    /\ texturesCreated = 0
    /\ lastOp = NoOp
    /\ bufferSize = 1
    /\ renderToScreen = [p \in PassObjects |-> FALSE]
    /\ autoRenderToScreen = TRUE
    /\ NoManager
    /\ PickingConstructed("SINGLE")
    /\ NoEffects
    /\ LoggerConstructed
    /\ CycleIdle

NextRender ==
    \/ RenderBegin
    \/ RenderSkip
    \/ \E threw \in BOOLEAN : RenderPassStep(threw)
    \/ RenderEnd

SpecRender == InitRender /\ [][NextRender]_vars

---------------------------------------------------------------------------
(* EffectComposer: the pass list and the shared depth texture             *)

\* passes.splice(i - 1, 0, x)
InsertAt(seq, i, x) ==
    SubSeq(seq, 1, i - 1) \o <<x>> \o SubSeq(seq, i, Len(seq))

\* passes.splice(i - 1, 1)
RemoveAt(seq, i) == SubSeq(seq, 1, i - 1) \o SubSeq(seq, i + 1, Len(seq))

\* passes.indexOf(x) + 1
IndexOf(seq, x) ==
    IF \E k \in 1..Len(seq) : seq[k] = x
    THEN CHOOSE k \in 1..Len(seq) :
            seq[k] = x /\ \A j \in 1..(k - 1) : seq[j] # x
    ELSE 0

\* The pass objects of a list.
InList(ids) == {ids[k] : k \in 1..Len(ids)}

\* deleteDepthTexture with the list ids in this.passes: the texture is
\* disposed and every pass of the list is handed null.
DeleteDepthTextureKeepRefs(ids, dt, live, held) ==
    IF dt # NoTexture
    THEN [depthTexture |-> NoTexture, live |-> live \ {dt}, held |-> held]
    ELSE [depthTexture |-> dt, live |-> live, held |-> held]

DeleteDepthTexture(ids, dt, live, held) ==
    IF dt # NoTexture
    THEN [depthTexture |-> NoTexture,
          live |-> live \ {dt},
          held |-> [p \in PassObjects |->
                      IF p \in InList(ids) THEN NoTexture ELSE held[p]]]
    ELSE [depthTexture |-> dt, live |-> live, held |-> held]

\* removePass: whether a pass of the remaining list needs the texture.
DepthTextureRequiredNever(ids) == FALSE

DepthTextureRequired(ids) == \E q \in InList(ids) : NeedsDepthTexture(q)

\* addPass: the passes that are handed the shared texture.
GivenTexture(ids, p, dt) == IF dt = NoTexture THEN InList(ids) ELSE {p}

\* addPass: what is done to the entry that goes into the list: setSize
\* with the drawing-buffer size, and initialize.
AddedEntryUnsized(p, size) == [pass |-> p, size |-> 0, initialized |-> TRUE]

AddedEntry(p, size) == [pass |-> p, size |-> size, initialized |-> TRUE]

\* addPass: the render-to-screen flags around the insertion of p, which
\* turns ids into newIds.
AddRenderToScreen(rts, auto, ids, newIds, p) ==
    LET rts1 == IF auto /\ Len(ids) > 0
                THEN [rts EXCEPT ![ids[Len(ids)]] = FALSE] ELSE rts
        auto1 == IF auto /\ rts1[p] THEN FALSE ELSE auto
        rts2 == IF auto1
                THEN [rts1 EXCEPT ![newIds[Len(newIds)]] = TRUE] ELSE rts1
    IN [rts |-> rts2, auto |-> auto1]

\* removePass: the flags after p was taken from position index, which
\* leaves newIds.
RemoveRenderToScreen(rts, auto, index, newIds, p) ==
    IF auto /\ index = Len(newIds) + 1
    THEN LET rts1 == [rts EXCEPT ![p] = FALSE] IN
         IF Len(newIds) > 0
         THEN [rts1 EXCEPT ![newIds[Len(newIds)]] = TRUE] ELSE rts1
    ELSE rts

\* addPass(pass, index), the part after the MRT substitution: the pass is
\* inserted at position i and the depth texture created or handed on.
AddPassPlain(p, i) ==
    LET ids == InsertAt(passIds, i, p)
        wanted == NeedsDepthTexture(p) \/ depthTexture # NoTexture
        create == wanted /\ depthTexture = NoTexture
        dt == IF create THEN texturesCreated + 1 ELSE depthTexture
        screen == AddRenderToScreen(renderToScreen, autoRenderToScreen,
                                    passIds, ids, p)
    IN
    /\ create => texturesCreated < MaxTextures
    /\ passIds' = ids
    /\ passes' = InsertAt(passes, i, PoolRecord(p))
    /\ renderToScreen' = screen.rts
    /\ autoRenderToScreen' = screen.auto
    /\ depthTexture' = dt
    /\ texturesCreated' = IF create THEN dt ELSE texturesCreated
    /\ liveTextures' = IF create THEN liveTextures \cup {dt} ELSE liveTextures
    /\ passTexture' =
         IF wanted
         THEN [q \in PassObjects |->
                 IF q \in GivenTexture(ids, p, depthTexture)
                 THEN dt ELSE passTexture[q]]
         ELSE passTexture

\* addPass: the test that sends a pass to setMRTRenderPass.
ReplacedByMRTAlways(mrt, ids, p) ==
    Len(ids) = 0 /\ PoolRecord(p).kind = "RenderPass"

ReplacedByMRT(mrt, ids, p) ==
    mrt /\ Len(ids) = 0 /\ PoolRecord(p).kind = "RenderPass"

\* addPass: the pass that goes into the list after setMRTRenderPass was
\* called and returned a pass (made) or null.
SubstituteAlways(p, made) == MRTPassId

Substitute(p, made) == IF made THEN MRTPassId ELSE p

\* addPass(pass, index) of a pass object that is not in the list; position
\* i = Len(passes) + 1 is the push of a call without index.  With MRT
\* support a first RenderPass is replaced by the MRTRenderPass when
\* setMRTRenderPass returns one: made is TRUE then, and shared tells whether
\* the SharedDepthPass was created as well.  The calls below start with no
\* render() in progress, whose locals (ri, calls) are reset.
AddPass(p, i, made, shared) ==
    /\ rpc = "idle"
    /\ hasRenderer
    /\ p \notin InList(passIds)
    /\ Len(passes) < MaxPasses
    /\ i \in 1..(Len(passes) + 1)
    /\ IF ReplacedByMRT(useMRT, passIds, p)
       THEN /\ mrtRenderPass' = made
            /\ sharedDepthPass' = shared
            /\ made \/ ~shared \/ sharedDepthPass
            /\ IF Substitute(p, made) = MRTPassId
               THEN /\ passes' = <<PoolRecord(MRTPassId)>>
                    /\ passIds' = <<MRTPassId>>
                    /\ passTexture' = [passTexture EXCEPT ![MRTPassId] = NoTexture]
                    /\ renderToScreen' =
                         [renderToScreen EXCEPT ![MRTPassId] = FALSE]
                    /\ UNCHANGED <<depthTexture, liveTextures, texturesCreated,
                                   autoRenderToScreen>>
               ELSE AddPassPlain(p, i)
            /\ lastOp' = [Op("addPass", p, passIds, depthTexture) EXCEPT
                            !.index = i, !.tried = TRUE,
                            !.entry = AddedEntry(Substitute(p, made),
                                                 bufferSize)]
       ELSE /\ made /\ shared
            /\ AddPassPlain(p, i)
            /\ UNCHANGED <<mrtRenderPass, sharedDepthPass>>
            /\ lastOp' = [Op("addPass", p, passIds, depthTexture) EXCEPT
                            !.index = i,
                            !.entry = AddedEntry(p, bufferSize)]
    /\ UNCHANGED <<hasRenderer, useMRT, stencilTest, rpc, rin, rout,
                   depthPassIndex, skipDepthPass, validSharedDepth, escaped,
                   bufferSize>>
    /\ calls' = <<>>
    /\ ri' = 1
    /\ UNCHANGED managerVars
    /\ UNCHANGED pickVars
    /\ UNCHANGED effectVars
    /\ UNCHANGED loggerVars
    /\ UNCHANGED cycleVars

\* removePass(pass) of a pass that is in the list.
RemovePass(p) ==
    /\ rpc = "idle"
    /\ IndexOf(passIds, p) # 0
    /\ LET index == IndexOf(passIds, p)
           ids == RemoveAt(passIds, index)
           required == DepthTextureRequired(ids)
           released == depthTexture # NoTexture /\ ~required
           held == IF released /\ passTexture[p] = depthTexture
                   THEN [passTexture EXCEPT ![p] = NoTexture]
                   ELSE passTexture
           d == IF released
                THEN DeleteDepthTexture(ids, depthTexture, liveTextures, held)
                ELSE [depthTexture |-> depthTexture, live |-> liveTextures,
                      held |-> held]
       IN
         /\ passIds' = ids
         /\ passes' = RemoveAt(passes, index)
         /\ depthTexture' = d.depthTexture
         /\ liveTextures' = d.live
         /\ passTexture' = d.held
         /\ renderToScreen' =
              RemoveRenderToScreen(renderToScreen, autoRenderToScreen,
                                   index, ids, p)
    /\ UNCHANGED <<hasRenderer, useMRT, mrtRenderPass, sharedDepthPass,
                   stencilTest, rpc, rin, rout, depthPassIndex,
                   skipDepthPass, validSharedDepth, escaped,
                   texturesCreated, bufferSize, autoRenderToScreen>>
    /\ calls' = <<>>
    /\ ri' = 1
    /\ lastOp' = Op("removePass", p, passIds, depthTexture)
    /\ UNCHANGED managerVars
    /\ UNCHANGED pickVars
    /\ UNCHANGED effectVars
    /\ UNCHANGED loggerVars
    /\ UNCHANGED cycleVars

\* removeAllPasses()
RemoveAllPasses ==
    /\ rpc = "idle"
    /\ LET d == DeleteDepthTexture(passIds, depthTexture, liveTextures,
                                   passTexture)
       IN
         /\ depthTexture' = d.depthTexture
         /\ liveTextures' = d.live
         /\ passTexture' = d.held
    /\ renderToScreen' =
         IF Len(passIds) > 0 /\ autoRenderToScreen
         THEN [renderToScreen EXCEPT ![passIds[Len(passIds)]] = FALSE]
         ELSE renderToScreen
    /\ passes' = <<>>
    /\ passIds' = <<>>
    /\ UNCHANGED <<hasRenderer, useMRT, mrtRenderPass, sharedDepthPass,
                   stencilTest, rpc, rin, rout, depthPassIndex,
                   skipDepthPass, validSharedDepth, escaped,
                   texturesCreated, bufferSize, autoRenderToScreen>>
    /\ calls' = <<>>
    /\ ri' = 1
    /\ lastOp' = Op("removeAllPasses", Anonymous, passIds, depthTexture)
    /\ UNCHANGED managerVars
    /\ UNCHANGED pickVars
    /\ UNCHANGED effectVars
    /\ UNCHANGED loggerVars
    /\ UNCHANGED cycleVars

\* dispose(): the dispose calls it makes, in order.
DisposeCallsTextureFirst(ids, dt) ==
    (IF dt # NoTexture THEN <<"depthTexture">> ELSE <<>>)
        \o ids \o <<"inputBuffer", "outputBuffer">>
        \o <<"copyPass", "timer", "fullscreenGeometry">>

DisposeCalls(ids, dt) ==
    ids \o <<"inputBuffer", "outputBuffer">>
        \o (IF dt # NoTexture THEN <<"depthTexture">> ELSE <<>>)
        \o <<"copyPass", "timer", "fullscreenGeometry">>

\* dispose(): the list is emptied before deleteDepthTexture runs.
Dispose ==
    /\ rpc = "idle"
    /\ LET d == DeleteDepthTexture(<<>>, depthTexture, liveTextures,
                                   passTexture)
       IN
         /\ depthTexture' = d.depthTexture
         /\ liveTextures' = d.live
         /\ passTexture' = d.held
    /\ passes' = <<>>
    /\ passIds' = <<>>
    /\ UNCHANGED <<hasRenderer, useMRT, mrtRenderPass, sharedDepthPass,
                   stencilTest, rpc, rin, rout, depthPassIndex,
                   skipDepthPass, validSharedDepth, escaped,
                   texturesCreated>>
    /\ UNCHANGED screenVars
    /\ calls' = <<>>
    /\ ri' = 1
    /\ lastOp' = [Op("dispose", Anonymous, passIds, depthTexture) EXCEPT
                    !.log = DisposeCalls(passIds, depthTexture)]
    /\ UNCHANGED managerVars
    /\ UNCHANGED pickVars
    /\ UNCHANGED effectVars
    /\ UNCHANGED loggerVars
    /\ UNCHANGED cycleVars

\* setRenderer(renderer): r is "none" for null, "plain" for a renderer on
\* which the multi-target probe fails and "mrt" for one on which it
\* succeeds; size is the new renderer's drawing-buffer size.
SetRenderer(r, size) ==
    /\ rpc = "idle"
    /\ hasRenderer' = (r # "none")
    /\ IF r = "none"
       THEN UNCHANGED <<useMRT, mrtRenderPass, sharedDepthPass, bufferSize>>
       ELSE LET c == CheckMRTSupport(r = "mrt", mrtRenderPass,
                                     sharedDepthPass)
            IN
            /\ bufferSize' = size
            /\ useMRT' = c.useMRT
            /\ mrtRenderPass' = c.mrtRenderPass
            /\ sharedDepthPass' = c.sharedDepthPass
    /\ UNCHANGED <<passes, stencilTest, rpc, rin, rout, depthPassIndex,
                   skipDepthPass, validSharedDepth, escaped, passIds,
                   depthTexture, passTexture, liveTextures, texturesCreated,
                   renderToScreen, autoRenderToScreen>>
    /\ calls' = <<>>
    /\ ri' = 1
    /\ lastOp' = [Op("setRenderer", r, passIds, depthTexture) EXCEPT
                    !.probed = IF r = "none" THEN 0 ELSE 1]
    /\ UNCHANGED managerVars
    /\ UNCHANGED pickVars
    /\ UNCHANGED effectVars
    /\ UNCHANGED loggerVars
    /\ UNCHANGED cycleVars

\* new EffectComposer(renderer): setRenderer runs the capability probe.
InitComposer ==
    /\ \E r \in Renderers \ {"none"} :
         /\ useMRT = CheckMRTSupport(r = "mrt", FALSE, FALSE).useMRT
         /\ lastOp = [Op("setRenderer", r, <<>>, NoTexture) EXCEPT
                        !.probed = 1]
    /\ passes = <<>>
    /\ hasRenderer = TRUE
    /\ mrtRenderPass = FALSE
    /\ sharedDepthPass = FALSE
    /\ stencilTest = Undefined
    /\ rpc = "idle"
    /\ ri = 1
    /\ rin = InputBufferId
    /\ rout = OutputBufferId
    /\ depthPassIndex = 0
    /\ skipDepthPass = FALSE
    /\ validSharedDepth = FALSE
    /\ calls = <<>>
    /\ escaped = FALSE
    /\ passIds = <<>>
    /\ depthTexture = NoTexture
    /\ passTexture = [p \in PassObjects |-> NoTexture]
    /\ liveTextures = {}
    /\ texturesCreated = 0
    /\ bufferSize = 1
    /\ renderToScreen = [p \in PassObjects |-> FALSE]
    /\ autoRenderToScreen = TRUE
    /\ NoManager
    /\ PickingConstructed("SINGLE")
    /\ NoEffects
    /\ LoggerConstructed
    /\ CycleIdle

\* The calls that change the pass list.
NextComposer ==
    \/ \E p \in PassPool, i \in 1..MaxPasses, made \in BOOLEAN,
          shared \in BOOLEAN : AddPass(p, i, made, shared)
    \/ \E p \in PassPool \cup {MRTPassId} : RemovePass(p)
    \/ RemoveAllPasses
    \/ Dispose

SpecComposer == InitComposer /\ [][NextComposer]_vars

\* The passes of a composer that renders a scene and one effect.
ScenePool == {"scene", "fx1"}

\* A composer whose passes are added and removed, whose renderer is
\* replaced, and that renders.
NextRenderer ==
    \/ \E p \in ScenePool, i \in 1..MaxPasses, made \in BOOLEAN,
          shared \in BOOLEAN : AddPass(p, i, made, shared)
    \/ \E p \in ScenePool \cup {MRTPassId} : RemovePass(p)
    \/ \E r \in Renderers, size \in BufferSizes : SetRenderer(r, size)
    \/ RenderBegin
    \/ RenderSkip
    \/ \E threw \in BOOLEAN : RenderPassStep(threw)
    \/ RenderEnd

SpecRenderer == InitComposer /\ [][NextRenderer]_vars

---------------------------------------------------------------------------
(* Selection and OutlineManager                                            *)

\* Selection.setVisible(flag) on a selection with the given members;
\* userData.initialVisible is Undefined, "true" or "false".
SetVisible(members, flag, vis, init) ==
    LET init2 == [o \in Objects |->
                    IF o \in members /\ init[o] = Undefined
                    THEN (IF vis[o] THEN "true" ELSE "false")
                    ELSE init[o]]
        vis2 == [o \in Objects |->
                    IF o \in members
                    THEN (IF flag THEN init2[o] = "true" ELSE FALSE)
                    ELSE vis[o]]
    IN [visible |-> vis2, initialVisible |-> init2]

\* The members of all selections of the layer map.
AllMembers(sel) == UNION {sel[l] : l \in DOMAIN sel}

\* update(): the scan for a non-empty selection.
HasObjectsNever(sel) == FALSE

HasObjects(sel) == \E l \in DOMAIN sel : sel[l] # {}

\* update(): whether the depth pass is rendered by this call.
DepthDue(v, stamped, since) ==
    \/ v = "ts"
    \/ ~stamped
    \/ since > DedupWindow

\* update(): the layer the camera is narrowed to for the mask render.
MaskLayerDefault(sel, cur) == DefaultLayer

MaskLayerCurrent(sel, cur) ==
    IF cur # Undefined /\ cur # Null THEN cur ELSE DefaultLayer

MaskLayer(sel, cur) ==
    IF cur # Undefined /\ cur # Null /\ cur \in DOMAIN sel /\ sel[cur] # {}
    THEN cur
    ELSE DefaultLayer

\* update(): camera.layers.mask = mask, after the mask render.
RestoreMaskMissing(saved, narrowed) == narrowed

RestoreMask(saved, narrowed) == saved

\* getSelectionForLayer: the layer map with an entry for the layer.
GetSelectionForLayer(sel, layer) ==
    IF layer \in DOMAIN sel
    THEN sel
    ELSE [l \in DOMAIN sel \cup {layer} |->
            IF l \in DOMAIN sel THEN sel[l] ELSE {}]

\* getSelectionForLayer: the Selection objects of the layer map and their
\* number, with the new Selection(...) of a layer that has no entry.
SelectionForLayerAlwaysNew(ids, created, layer) ==
    [ids |-> [l \in DOMAIN ids \cup {layer} |->
                IF l = layer THEN created + 1 ELSE ids[l]],
     created |-> created + 1]

SelectionForLayer(ids, created, layer) ==
    IF layer \in DOMAIN ids
    THEN [ids |-> ids, created |-> created]
    ELSE [ids |-> [l \in DOMAIN ids \cup {layer} |->
                     IF l = layer THEN created + 1 ELSE ids[l]],
          created |-> created + 1]

\* clearUnused(activeObjects, exceptLayer): the layer map afterwards.
ClearUnusedAllLayers(sel, active, exceptLayer) ==
    [l \in DOMAIN sel |-> {o \in sel[l] : o \in active}]

ClearUnusedIgnoringActive(sel, active, exceptLayer) ==
    [l \in DOMAIN sel |->
        IF exceptLayer # Undefined /\ l = exceptLayer THEN sel[l] ELSE {}]

ClearUnused(sel, active, exceptLayer) ==
    [l \in DOMAIN sel |->
        IF exceptLayer # Undefined /\ l = exceptLayer
        THEN sel[l]
        ELSE {o \in sel[l] : o \in active}]

\* What clearUnused removed: the (layer, object) pairs.
Removed(before, after) ==
    {<<l, o>> \in (DOMAIN before) \X Objects : o \in before[l] /\ o \notin after[l]}

\* One entry of the frame log.
Ev(type, who, layer, content, bg, removed) ==
    [type |-> type, who |-> who, layer |-> layer, content |-> content,
     bg |-> bg, removed |-> removed]

\* The manager's state as update() reads and writes it.
ManagerState ==
    [sel |-> selectionsByLayer, needs |-> needsUpdate, cur |-> currentLayer,
     stamped |-> depthStamped, since |-> sinceDepthPass, bg |-> background, cam |-> cameraMask,
     vis |-> visible, init |-> initialVisible]

\* OutlineManager.update from state m, in variant v; failure names the
\* render that throws when it is reached.  The result: the state at the
\* moment control leaves update(), how it left, and the renders it made.
Update(m, v, failure, who) ==
    LET due == DepthDue(v, m.stamped, m.since)
        hidden == SetVisible(AllMembers(m.sel), FALSE, m.vis, m.init)
        shown == SetVisible(AllMembers(m.sel), TRUE,
                            hidden.visible, hidden.initialVisible)
        \* scene.background = null; setVisible(false) on every selection
        atDepth == [m EXCEPT !.bg = Null, !.vis = hidden.visible,
                             !.init = hidden.initialVisible]
        depthEv == Ev("depth", who, Null,
                      {o \in Objects : atDepth.vis[o]}, atDepth.bg, {})
        \* setVisible(true); js: the token is stamped, the background restored
        afterDepth ==
            IF due
            THEN [atDepth EXCEPT !.vis = shown.visible,
                                 !.init = shown.initialVisible,
                                 !.stamped = IF v = "js" THEN TRUE ELSE @,
                                 !.since = IF v = "js" THEN 0 ELSE @,
                                 !.bg = IF v = "js" THEN m.bg ELSE @]
            ELSE m
        layer == MaskLayer(afterDepth.sel, afterDepth.cur)
        members == IF layer \in DOMAIN afterDepth.sel
                   THEN afterDepth.sel[layer] ELSE {}
        \* camera.layers.set(layer)
        atMask == [afterDepth EXCEPT !.cam = {layer}]
        maskEv == Ev("mask", who, layer,
                     {o \in members : atMask.vis[o]}, atMask.bg, {})
        depthEvs == IF due THEN <<depthEv>> ELSE <<>>
        \* the mask and (ts) the background restored, needsUpdate cleared
        atReturn == [atMask EXCEPT !.cam = RestoreMask(m.cam, atMask.cam),
                                   !.bg = m.bg,
                                   !.needs = FALSE]
    IN
    IF ~m.needs /\ ~HasObjects(m.sel)
    THEN [m |-> m, outcome |-> "false", events |-> <<>>,
          maskLayers |-> <<>>, depth |-> FALSE]
    ELSE IF due /\ failure = "depth"
    THEN [m |-> atDepth, outcome |-> "throw", events |-> <<depthEv>>,
          maskLayers |-> <<>>, depth |-> TRUE]
    ELSE IF failure = "mask"
    THEN [m |-> atMask, outcome |-> "throw",
          events |-> depthEvs \o <<maskEv>>,
          maskLayers |-> <<atMask.cam>>, depth |-> due]
    ELSE [m |-> atReturn, outcome |-> "true",
          events |-> depthEvs \o <<maskEv>>,
          maskLayers |-> <<atMask.cam>>, depth |-> due]

\* The record of a manager.update() call kept in lastUpdate.
UpdateRecord(m, r, who) ==
    [outcome |-> r.outcome, caller |-> who, cur |-> m.cur,
     curSel |-> IF m.cur \in DOMAIN m.sel THEN m.sel[m.cur] ELSE {},
     depth |-> r.depth, maskLayers |-> r.maskLayers,
     preBg |-> m.bg, preCam |-> m.cam,
     preVis |-> {o \in Objects : m.vis[o]},
     postBg |-> r.m.bg, postCam |-> r.m.cam,
     postVis |-> {o \in Objects : r.m.vis[o]},
     preNeeds |-> m.needs,
     preObjects |-> (\E l \in DOMAIN m.sel : m.sel[l] # {}),
     renders |-> Len(r.events),
     unchanged |-> (r.m = m)]

\* Date.now() advanced by d ms.
Elapse(stamped, since, d) ==
    IF ~stamped THEN since
    ELSE IF since + d > DedupWindow THEN DedupWindow + 1
    ELSE since + d

---------------------------------------------------------------------------
(* SharedOutlineEffect.update, the frame, and the host                     *)

\* The manager's variables set from a state record.
SetManager(m) ==
    /\ selectionsByLayer' = m.sel
    /\ needsUpdate' = m.needs
    /\ currentLayer' = m.cur
    /\ depthStamped' = m.stamped
    /\ sinceDepthPass' = m.since
    /\ background' = m.bg
    /\ cameraMask' = m.cam
    /\ visible' = m.vis
    /\ initialVisible' = m.init

\* The host's animation loop starts a frame, d ms after the last event.
BeginFrame(d) ==
    /\ ~frameOpen
    /\ frameOpen' = TRUE
    /\ updated' = {}
    /\ frameLog' = <<>>
    /\ lastUpdate' = NoUpdate
    /\ sinceDepthPass' = Elapse(depthStamped, sinceDepthPass, d)
    /\ UNCHANGED <<variant, selectionsByLayer, selectionIds, selectionsCreated,
                   needsUpdate, currentLayer,
                   depthStamped, background, cameraMask, visible,
                   initialVisible, selection, selectionLayer, blurEnabled,
                   updateCounter, activeObjects, throwsLeft, lastClear>>
    /\ UNCHANGED composerVars
    /\ UNCHANGED pickVars
    /\ UNCHANGED effectVars
    /\ UNCHANGED loggerVars
    /\ UNCHANGED cycleVars

\* Time passes within the frame (other passes and effects render); the log
\* notes the moment the dedup window of the last depth render runs out.
Tick(d) ==
    /\ frameOpen
    /\ depthStamped
    /\ sinceDepthPass' = Elapse(depthStamped, sinceDepthPass, d)
    /\ frameLog' = IF sinceDepthPass <= DedupWindow
                      /\ Elapse(depthStamped, sinceDepthPass, d) > DedupWindow
                   THEN Append(frameLog,
                               Ev("expired", Null, Null, {}, background, {}))
                   ELSE frameLog
    /\ UNCHANGED <<depthStamped, variant, selectionsByLayer, selectionIds,
                   selectionsCreated, needsUpdate, currentLayer,
                   background, cameraMask, visible, initialVisible,
                   selection, selectionLayer, blurEnabled, updateCounter,
                   activeObjects, frameOpen, updated, throwsLeft,
                   lastUpdate, lastClear>>
    /\ UNCHANGED composerVars
    /\ UNCHANGED pickVars
    /\ UNCHANGED effectVars
    /\ UNCHANGED loggerVars
    /\ UNCHANGED cycleVars

\* The registration loop: setNeedsUpdate() is called for each object that
\* the layer's selection does not hold yet.
NeedsAfterAddingAlways(layerSel, objs, needs) == TRUE

NeedsAfterAdding(layerSel, objs, needs) ==
    IF objs \subseteq layerSel THEN needs ELSE TRUE

\* The static activeObjects set after a consumer has added its selection.
ActiveAfterAddingOwnOnly(active, own) == own

ActiveAfterAdding(active, own) == active \cup own

\* SharedOutlineEffect.update of consumer c, called once per frame by its
\* EffectPass.  A throw of manager.update() leaves update() at once.
ConsumerUpdate(c, failure) ==
    /\ frameOpen
    /\ c \notin updated
    /\ failure # "none" => throwsLeft > 0
    /\ LET layer == selectionLayer[c]
           renderCounter == updateCounter + 1
           selected == selection[c] # {}
           active1 == ActiveAfterAdding(activeObjects, selection[c])
           withLayer == GetSelectionForLayer(selectionsByLayer, layer)
           sel1 == IF selected
                   THEN [withLayer EXCEPT ![layer] = @ \cup selection[c]]
                   ELSE selectionsByLayer
           needs1 == IF selected
                     THEN NeedsAfterAdding(withLayer[layer], selection[c],
                                           needsUpdate)
                     ELSE needsUpdate
           m0 == [ManagerState EXCEPT !.sel = sel1, !.needs = needs1,
                                      !.cur = layer]
           r == IF selected
                THEN Update(m0, variant, failure, c)
                ELSE [m |-> m0, outcome |-> "skipped", events |-> <<>>,
                      maskLayers |-> <<>>, depth |-> FALSE]
           threw == r.outcome = "throw"
           edgeEvs ==
               IF selected /\ ~threw
               THEN <<Ev("edge", c, layer, {}, r.m.bg, {})>> \o
                    (IF blurEnabled[c]
                     THEN <<Ev("blur", c, layer, {}, r.m.bg, {})>>
                     ELSE <<>>)
               ELSE <<>>
           cleanup == ~threw /\ renderCounter = CleanupCount
           sel2 == IF cleanup
                   THEN ClearUnused(r.m.sel, active1, layer)
                   ELSE r.m.sel
           clearEvs ==
               IF cleanup
               THEN <<Ev("clear", c, layer, active1, r.m.bg,
                         Removed(r.m.sel, sel2))>>
               ELSE <<>>
           endEvs == IF threw THEN <<>>
                     ELSE <<Ev("end", c, layer, {}, r.m.bg, {})>>
       IN
         /\ SetManager([r.m EXCEPT !.sel = sel2,
                                   !.needs = IF sel2 # r.m.sel THEN TRUE ELSE @])
         /\ updateCounter' = IF cleanup THEN 0
                            ELSE IF renderCounter > MaxUpdateCounter
                                 THEN MaxUpdateCounter ELSE renderCounter
         /\ activeObjects' = IF cleanup THEN {} ELSE active1
         /\ frameLog' = frameLog \o r.events \o edgeEvs \o clearEvs \o endEvs
         /\ throwsLeft' = IF threw THEN throwsLeft - 1 ELSE throwsLeft
         /\ lastUpdate' = IF selected THEN UpdateRecord(m0, r, c)
                          ELSE lastUpdate
         /\ LET e == IF selected
                     THEN SelectionForLayer(selectionIds, selectionsCreated,
                                            layer)
                     ELSE [ids |-> selectionIds,
                           created |-> selectionsCreated]
            IN  /\ selectionIds' = e.ids
                /\ selectionsCreated' = e.created
    /\ updated' = updated \cup {c}
    /\ UNCHANGED <<variant, selection, selectionLayer, blurEnabled, frameOpen,
                   lastClear>>
    /\ UNCHANGED composerVars
    /\ UNCHANGED pickVars
    /\ UNCHANGED effectVars
    /\ UNCHANGED loggerVars
    /\ UNCHANGED cycleVars

\* composer.render returns: the frame is over.
EndFrame ==
    /\ frameOpen
    /\ frameOpen' = FALSE
    /\ updated' = {}
    /\ frameLog' = <<>>
    /\ lastUpdate' = NoUpdate
    /\ UNCHANGED <<variant, selectionsByLayer, selectionIds, selectionsCreated,
                   needsUpdate, currentLayer,
                   depthStamped, sinceDepthPass, background, cameraMask,
                   visible, initialVisible, selection, selectionLayer,
                   blurEnabled, updateCounter, activeObjects, throwsLeft,
                   lastClear>>
    /\ UNCHANGED composerVars
    /\ UNCHANGED pickVars
    /\ UNCHANGED effectVars
    /\ UNCHANGED loggerVars
    /\ UNCHANGED cycleVars

\* The host adds an object to a consumer's selection, between two frames.
Select(c, o) ==
    /\ ~frameOpen
    /\ o \in Selectable[c]
    /\ o \notin selection[c]
    /\ selection' = [selection EXCEPT ![c] = @ \cup {o}]
    /\ UNCHANGED <<variant, selectionsByLayer, selectionIds, selectionsCreated,
                   needsUpdate, currentLayer,
                   depthStamped, sinceDepthPass, background, cameraMask, visible,
                   initialVisible, selectionLayer, blurEnabled,
                   updateCounter, activeObjects, frameOpen, updated,
                   frameLog, throwsLeft, lastClear>>
    /\ lastUpdate' = NoUpdate
    /\ UNCHANGED composerVars
    /\ UNCHANGED pickVars
    /\ UNCHANGED effectVars
    /\ UNCHANGED loggerVars
    /\ UNCHANGED cycleVars

\* The host deletes an object from a consumer's selection.
Deselect(c, o) ==
    /\ ~frameOpen
    /\ o \in selection[c]
    /\ selection' = [selection EXCEPT ![c] = @ \ {o}]
    /\ UNCHANGED <<variant, selectionsByLayer, selectionIds, selectionsCreated,
                   needsUpdate, currentLayer,
                   depthStamped, sinceDepthPass, background, cameraMask, visible,
                   initialVisible, selectionLayer, blurEnabled,
                   updateCounter, activeObjects, frameOpen, updated,
                   frameLog, throwsLeft, lastClear>>
    /\ lastUpdate' = NoUpdate
    /\ UNCHANGED composerVars
    /\ UNCHANGED pickVars
    /\ UNCHANGED effectVars
    /\ UNCHANGED loggerVars
    /\ UNCHANGED cycleVars

\* OutlineManager.setNeedsUpdate, called by the host after a selection change.
SetNeedsUpdate ==
    /\ ~frameOpen
    /\ ~needsUpdate
    /\ needsUpdate' = TRUE
    /\ UNCHANGED <<variant, selectionsByLayer, selectionIds, selectionsCreated,
                   currentLayer,
                   depthStamped, sinceDepthPass, background, cameraMask, visible,
                   initialVisible, selection, selectionLayer, blurEnabled,
                   updateCounter, activeObjects, frameOpen, updated,
                   frameLog, throwsLeft, lastClear>>
    /\ lastUpdate' = NoUpdate
    /\ UNCHANGED composerVars
    /\ UNCHANGED pickVars
    /\ UNCHANGED effectVars
    /\ UNCHANGED loggerVars
    /\ UNCHANGED cycleVars

\* The host calls the public OutlineManager.update itself, between two frames.
ManagerUpdate(failure) ==
    /\ ~frameOpen
    /\ failure # "none" => throwsLeft > 0
    /\ LET r == Update(ManagerState, variant, failure, Null) IN
         /\ SetManager(r.m)
         /\ throwsLeft' = IF r.outcome = "throw"
                          THEN throwsLeft - 1 ELSE throwsLeft
         /\ lastUpdate' = UpdateRecord(ManagerState, r, Null)
    /\ UNCHANGED <<variant, selection, selectionLayer, blurEnabled,
                   updateCounter, activeObjects, frameOpen, updated,
                   frameLog, lastClear, selectionIds, selectionsCreated>>
    /\ UNCHANGED composerVars
    /\ UNCHANGED pickVars
    /\ UNCHANGED effectVars
    /\ UNCHANGED loggerVars
    /\ UNCHANGED cycleVars

InitManager ==
    /\ \E v \in {"js", "ts"} : ManagerConstructed(v)
    /\ ComposerConstructed
    /\ PickingConstructed("SINGLE")
    /\ NoEffects
    /\ LoggerConstructed
    /\ CycleIdle

\* The frames of a host whose renders never throw.
NextManager ==
    \/ \E d \in TickSteps : BeginFrame(d)
    \/ \E d \in TickSteps : Tick(d)
    \/ \E c \in Consumers : ConsumerUpdate(c, "none")
    \/ EndFrame
    \/ \E c \in Consumers, o \in Objects : Select(c, o)
    \/ \E c \in Consumers, o \in Objects : Deselect(c, o)

SpecManager == InitManager /\ [][NextManager]_vars

\* The order of the consumers' effect passes in the composer's pass list.
PassOrder == <<"red", "blue">>

\* composer.render() reaches the pass of consumer PassOrder[k].
OrderedUpdate(k) ==
    /\ \A j \in 1..(k - 1) : PassOrder[j] \in updated
    /\ ConsumerUpdate(PassOrder[k], "none")

\* composer.render() returns after the last pass.
FullEndFrame ==
    /\ updated = Consumers
    /\ EndFrame

\* One step of the animation loop.
FrameStep ==
    \/ \E d \in TickSteps : BeginFrame(d)
    \/ \E k \in DOMAIN PassOrder : OrderedUpdate(k)
    \/ FullEndFrame

\* A host that renders every frame in full, every pass in list order, and
\* changes selections between frames.
NextFrames ==
    \/ FrameStep
    \/ \E c \in Consumers, o \in Objects : Select(c, o)
    \/ \E c \in Consumers, o \in Objects : Deselect(c, o)

\* What a FrameStep does to the frame's position: the frame opens, one more
\* consumer has updated, or the frame closes.  Of the steps of NextFrames
\* exactly the FrameSteps change frameOpen or updated, and one is possible
\* in every state.
FrameProgress ==
    \/ ~frameOpen /\ frameOpen' = TRUE /\ updated' = {}
    \/ /\ frameOpen
       /\ frameOpen' = TRUE
       /\ \E c \in Consumers \ updated : updated' = updated \cup {c}
    \/ frameOpen /\ updated = Consumers /\ frameOpen' = FALSE /\ updated' = {}

\* The animation loop never stops: frame steps keep being taken.
SpecFrames ==
    InitManager /\ [][NextFrames]_vars
        /\ WF_<<frameOpen, updated>>(FrameProgress)

\* The same frames with up to MaxThrows failing depth or mask renders, and
\* a host that calls update() itself.
NextManagerThrow ==
    \/ BeginFrame(DedupWindow + 1)
    \/ \E c \in Consumers, f \in Failures : ConsumerUpdate(c, f)
    \/ EndFrame
    \/ \E c \in Consumers, o \in Objects : Select(c, o)
    \/ \E f \in Failures : ManagerUpdate(f)

SpecManagerThrow == InitManager /\ [][NextManagerThrow]_vars

\* The Selection objects of a layer map with the layers D, created in the
\* order of the consumers' layers.
LayerRank(l) ==
    IF l = DefaultLayer THEN 0 ELSE IF l = DemoLayers["red"] THEN 1 ELSE 2

SelectionsOf(D) ==
    [l \in D |-> Cardinality({k \in D : LayerRank(k) <= LayerRank(l)})]

\* The layer maps a manager can hold: the default layer and any of the
\* consumers' layers, each with any members.
LayerMaps ==
    UNION {[D -> SUBSET Objects] :
             D \in {{DefaultLayer} \cup X :
                      X \in SUBSET {DemoLayers[c] : c \in Consumers}}}

\* A call of clearUnused(activeObjects, exceptLayer) on its own.
ClearUnusedCall(exceptLayer) ==
    /\ ~frameOpen
    /\ ~lastClear.called
    /\ LET after == ClearUnused(selectionsByLayer, activeObjects, exceptLayer) IN
         /\ selectionsByLayer' = after
         /\ needsUpdate' = IF after # selectionsByLayer THEN TRUE
                           ELSE needsUpdate
         /\ lastClear' = [called |-> TRUE, active |-> activeObjects,
                          exceptLayer |-> exceptLayer,
                          before |-> selectionsByLayer, after |-> after]
    /\ UNCHANGED <<variant, currentLayer, depthStamped, sinceDepthPass,
                   background, cameraMask, visible, initialVisible,
                   selection, selectionLayer, blurEnabled, updateCounter,
                   activeObjects, frameOpen, updated, frameLog, throwsLeft,
                   lastUpdate, selectionIds, selectionsCreated>>
    /\ UNCHANGED composerVars
    /\ UNCHANGED pickVars
    /\ UNCHANGED effectVars
    /\ UNCHANGED loggerVars
    /\ UNCHANGED cycleVars

InitClear ==
    /\ selectionsByLayer \in LayerMaps
    /\ selectionIds = SelectionsOf(DOMAIN selectionsByLayer)
    /\ selectionsCreated = Cardinality(DOMAIN selectionsByLayer)
    /\ needsUpdate \in BOOLEAN
    /\ activeObjects \in SUBSET Objects
    /\ \E v \in {"js", "ts"} : ConsumersConstructed(v)
    /\ ComposerConstructed
    /\ PickingConstructed("SINGLE")
    /\ NoEffects
    /\ LoggerConstructed
    /\ CycleIdle

NextClear == \E l \in Layers \cup {Undefined} : ClearUnusedCall(l)

SpecClear == InitClear /\ [][NextClear]_vars

\* getSelectionForLayer(layer), called by the host.
GetSelectionForLayerCall(layer) ==
    /\ ~frameOpen
    /\ LET e == SelectionForLayer(selectionIds, selectionsCreated, layer) IN
         /\ selectionIds' = e.ids
         /\ selectionsCreated' = e.created
    /\ selectionsByLayer' = GetSelectionForLayer(selectionsByLayer, layer)
    /\ UNCHANGED <<variant, needsUpdate, currentLayer, depthStamped,
                   sinceDepthPass, background, cameraMask, visible,
                   initialVisible, selection, selectionLayer, blurEnabled,
                   updateCounter, activeObjects, frameOpen, updated,
                   frameLog, throwsLeft, lastUpdate, lastClear>>
    /\ UNCHANGED composerVars
    /\ UNCHANGED pickVars
    /\ UNCHANGED effectVars
    /\ UNCHANGED loggerVars
    /\ UNCHANGED cycleVars

\* addToLayer(object, layer)
AddToLayer(o, layer) ==
    /\ ~frameOpen
    /\ LET e == SelectionForLayer(selectionIds, selectionsCreated, layer)
           withLayer == GetSelectionForLayer(selectionsByLayer, layer)
       IN
         /\ selectionIds' = e.ids
         /\ selectionsCreated' = e.created
         /\ selectionsByLayer' = [withLayer EXCEPT ![layer] = @ \cup {o}]
    /\ needsUpdate' = TRUE
    /\ UNCHANGED <<variant, currentLayer, depthStamped,
                   sinceDepthPass, background, cameraMask, visible,
                   initialVisible, selection, selectionLayer, blurEnabled,
                   updateCounter, activeObjects, frameOpen, updated,
                   frameLog, throwsLeft, lastUpdate, lastClear>>
    /\ UNCHANGED composerVars
    /\ UNCHANGED pickVars
    /\ UNCHANGED effectVars
    /\ UNCHANGED loggerVars
    /\ UNCHANGED cycleVars

\* removeFromLayer(object, layer)
RemoveFromLayer(o, layer) ==
    /\ ~frameOpen
    /\ LET result == layer \in DOMAIN selectionsByLayer
                       /\ o \in selectionsByLayer[layer]
       IN
         /\ selectionsByLayer' =
              IF result
              THEN [selectionsByLayer EXCEPT ![layer] = @ \ {o}]
              ELSE selectionsByLayer
         /\ needsUpdate' = IF result THEN TRUE ELSE needsUpdate
    /\ UNCHANGED <<variant, selectionIds, selectionsCreated, currentLayer,
                   depthStamped, sinceDepthPass, background, cameraMask,
                   visible, initialVisible, selection, selectionLayer,
                   blurEnabled, updateCounter, activeObjects, frameOpen,
                   updated, frameLog, throwsLeft, lastUpdate, lastClear>>
    /\ UNCHANGED composerVars
    /\ UNCHANGED pickVars
    /\ UNCHANGED effectVars
    /\ UNCHANGED loggerVars
    /\ UNCHANGED cycleVars

\* The calls a host makes on the manager's layer map.
NextLayers ==
    \/ \E l \in Layers : GetSelectionForLayerCall(l)
    \/ \E o \in Objects, l \in Layers : AddToLayer(o, l)
    \/ \E o \in Objects, l \in Layers : RemoveFromLayer(o, l)
    \/ \E l \in Layers \cup {Undefined} : ClearUnusedCall(l)

SpecLayers == InitManager /\ [][NextLayers]_vars

\* selection.setVisible(flag) on the Selection of a layer, called by the
\* host; a setVisible(true) closes the cycle its setVisible(false) opened.
SelectionSetVisible(layer, flag) ==
    /\ layer \in DOMAIN selectionsByLayer
    /\ ~flag => lastCycle.phase # "hidden"
    /\ flag => lastCycle.phase = "hidden" /\ lastCycle.layer = layer
    /\ LET r == SetVisible(selectionsByLayer[layer], flag, visible,
                           initialVisible)
       IN
         /\ visible' = r.visible
         /\ initialVisible' = r.initialVisible
    /\ lastCycle' = IF flag THEN [lastCycle EXCEPT !.phase = "shown"]
                    ELSE [phase |-> "hidden", layer |-> layer,
                          before |-> visible]
    /\ UNCHANGED <<variant, selectionsByLayer, selectionIds,
                   selectionsCreated, needsUpdate, currentLayer,
                   depthStamped, sinceDepthPass, background, cameraMask,
                   selection, selectionLayer, blurEnabled, updateCounter,
                   activeObjects, frameOpen, updated, frameLog, throwsLeft,
                   lastUpdate, lastClear>>
    /\ UNCHANGED composerVars
    /\ UNCHANGED pickVars
    /\ UNCHANGED effectVars
    /\ UNCHANGED loggerVars

\* The host assigns object.visible between two hide/show cycles.
HostSetsVisible(o, flag) ==
    /\ lastCycle.phase # "hidden"
    /\ visible[o] # flag
    /\ visible' = [visible EXCEPT ![o] = flag]
    /\ lastCycle' = NoCycle
    /\ UNCHANGED <<variant, selectionsByLayer, selectionIds,
                   selectionsCreated, needsUpdate, currentLayer,
                   depthStamped, sinceDepthPass, background, cameraMask,
                   initialVisible, selection, selectionLayer, blurEnabled,
                   updateCounter, activeObjects, frameOpen, updated,
                   frameLog, throwsLeft, lastUpdate, lastClear>>
    /\ UNCHANGED composerVars
    /\ UNCHANGED pickVars
    /\ UNCHANGED effectVars
    /\ UNCHANGED loggerVars

\* A manager whose selections hold any objects, before any setVisible.
InitVisible ==
    /\ selectionsByLayer \in LayerMaps
    /\ selectionIds = SelectionsOf(DOMAIN selectionsByLayer)
    /\ selectionsCreated = Cardinality(DOMAIN selectionsByLayer)
    /\ needsUpdate = TRUE
    /\ activeObjects = {}
    /\ ConsumersConstructed("js")
    /\ ComposerConstructed
    /\ PickingConstructed("SINGLE")
    /\ NoEffects
    /\ LoggerConstructed
    /\ CycleIdle

NextVisible ==
    \/ \E l \in Layers, flag \in BOOLEAN : SelectionSetVisible(l, flag)
    \/ \E o \in Objects, flag \in BOOLEAN : HostSetsVisible(o, flag)

SpecVisible == InitVisible /\ [][NextVisible]_vars

\* The manager as the public API can leave it before a call of update():
\* any layer map (addToLayer, removeFromLayer, the default selection), any
\* current layer, the dedup token unset, inside or outside its window, and
\* a camera that sees the default layer or every layer.
InitUpdate ==
    /\ selectionsByLayer \in LayerMaps
    /\ selectionIds = SelectionsOf(DOMAIN selectionsByLayer)
    /\ selectionsCreated = Cardinality(DOMAIN selectionsByLayer)
    /\ needsUpdate \in BOOLEAN
    /\ currentLayer \in Layers \cup {Null}
    /\ \E t \in {<<FALSE, 0>>, <<TRUE, DedupWindow>>, <<TRUE, DedupWindow + 1>>} :
         /\ depthStamped = t[1]
         /\ sinceDepthPass = t[2]
    /\ cameraMask \in {{DefaultLayer}, Layers}
    /\ \E v \in {"js", "ts"} : variant = v
    /\ background = "sky"
    /\ visible = [o \in Objects |-> TRUE]
    /\ initialVisible = [o \in Objects |-> Undefined]
    /\ selection = [c \in Consumers |-> {}]
    /\ selectionLayer = DemoLayers
    /\ blurEnabled = [c \in Consumers |-> c = "red"]
    /\ updateCounter = 0
    /\ activeObjects = {}
    /\ frameOpen = FALSE
    /\ updated = {}
    /\ frameLog = <<>>
    /\ throwsLeft = MaxThrows
    /\ lastUpdate = NoUpdate
    /\ lastClear = NoClear
    /\ ComposerConstructed
    /\ PickingConstructed("SINGLE")
    /\ NoEffects
    /\ LoggerConstructed
    /\ CycleIdle

\* Calls of update() and setNeedsUpdate() in which no render throws.
NextUpdate ==
    \/ ManagerUpdate("none")
    \/ SetNeedsUpdate

SpecUpdate == InitUpdate /\ [][NextUpdate]_vars

\* update() of a second OutlineManager instance that has objects selected:
\* it reads and stamps the same static OutlineManager.lastDepthPassTime.
\* The call is recorded with the caller "other".
OtherManagerUpdate ==
    /\ ~frameOpen
    /\ LET due == DepthDue(variant, depthStamped, sinceDepthPass) IN
         /\ depthStamped' = IF due /\ variant = "js" THEN TRUE
                            ELSE depthStamped
         /\ sinceDepthPass' = IF due /\ variant = "js" THEN 0
                              ELSE sinceDepthPass
         /\ lastUpdate' = [NoUpdate EXCEPT !.outcome = "true",
                                           !.caller = "other",
                                           !.depth = due]
    /\ UNCHANGED <<variant, selectionsByLayer, selectionIds,
                   selectionsCreated, needsUpdate, currentLayer, background,
                   cameraMask, visible, initialVisible, selection,
                   selectionLayer, blurEnabled, updateCounter, activeObjects,
                   frameOpen, updated, frameLog, throwsLeft, lastClear>>
    /\ UNCHANGED composerVars
    /\ UNCHANGED pickVars
    /\ UNCHANGED effectVars
    /\ UNCHANGED loggerVars
    /\ UNCHANGED cycleVars

\* Date.now() advances by d ms between two calls.
Wait(d) ==
    /\ ~frameOpen
    /\ depthStamped
    /\ sinceDepthPass <= DedupWindow
    /\ sinceDepthPass' = Elapse(depthStamped, sinceDepthPass, d)
    /\ UNCHANGED <<depthStamped, variant, selectionsByLayer, selectionIds,
                   selectionsCreated, needsUpdate, currentLayer,
                   background, cameraMask, visible, initialVisible,
                   selection, selectionLayer, blurEnabled, updateCounter,
                   activeObjects, frameOpen, updated, frameLog, throwsLeft,
                   lastUpdate, lastClear>>
    /\ UNCHANGED composerVars
    /\ UNCHANGED pickVars
    /\ UNCHANGED effectVars
    /\ UNCHANGED loggerVars
    /\ UNCHANGED cycleVars

\* Two managers of one page, updated in any order.
NextTwoManagers ==
    \/ ManagerUpdate("none")
    \/ OtherManagerUpdate
    \/ \E d \in TickSteps : Wait(d)

SpecTwoManagers == InitUpdate /\ [][NextTwoManagers]_vars

\* Calls of update() in which up to MaxThrows renders throw.
NextUpdateThrow == \E f \in Failures : ManagerUpdate(f)

SpecUpdateThrow == InitUpdate /\ [][NextUpdateThrow]_vars

---------------------------------------------------------------------------
(* PerformanceLogger: the singleton behind enableLogs, timeLog, log, ...   *)

\* What every logger method leaves alone.
LoggerOnly ==
    /\ UNCHANGED <<composerVars, managerVars>>
    /\ UNCHANGED pickVars
    /\ UNCHANGED effectVars
    /\ UNCHANGED cycleVars

\* enableLogs() and disableLogs()
Enable ==
    /\ logger' = [logger EXCEPT !.enabled = TRUE, !.enableCalled = TRUE]
    /\ LoggerOnly

Disable ==
    /\ logger' = [logger EXCEPT !.enabled = FALSE]
    /\ LoggerOnly

\* enableTimeCollection() and disableTimeCollection()
EnableTimeCollection ==
    /\ logger' = [logger EXCEPT !.collectTimes = TRUE]
    /\ LoggerOnly

DisableTimeCollection ==
    /\ logger' = [logger EXCEPT !.collectTimes = FALSE]
    /\ LoggerOnly

\* clearTimeData()
ClearTimeData ==
    /\ logger' = [logger EXCEPT !.timeData = [l \in Labels |-> 0]]
    /\ LoggerOnly

\* time(label): console.time and a timer, unless the logger is disabled.
Time(label) ==
    /\ logger' = IF ~logger.enabled THEN logger
                 ELSE [logger EXCEPT !.console = @ \cup {"time"},
                                     !.timers = @ \cup {label}]
    /\ LoggerOnly

\* timeEnd(label): console.timeEnd and, while times are collected and the
\* label has a timer, one more sample and the timer deleted.
TimeEnd(label) ==
    /\ logger.timeData[label] < MaxSamples
    /\ logger' =
         IF ~logger.enabled THEN logger
         ELSE IF logger.collectTimes /\ label \in logger.timers
         THEN [logger EXCEPT !.console = @ \cup {"timeEnd"},
                             !.timeData[label] = @ + 1,
                             !.timers = @ \ {label}]
         ELSE [logger EXCEPT !.console = @ \cup {"timeEnd"}]
    /\ LoggerOnly

\* log(...args) and warn(...args)
Log(method) ==
    /\ logger' = IF ~logger.enabled THEN logger
                 ELSE [logger EXCEPT !.console = @ \cup {method}]
    /\ LoggerOnly

\* error(...args) prints whether the logger is enabled or not.
Error ==
    /\ logger' = [logger EXCEPT !.console = @ \cup {"error"}]
    /\ LoggerOnly

\* printSummary()
PrintSummary ==
    /\ logger' = IF ~logger.enabled \/ ~logger.collectTimes THEN logger
                 ELSE [logger EXCEPT !.console =
                           @ \cup {"group"} \cup
                           (IF \E l \in Labels : logger.timeData[l] > 0
                            THEN {"log"} ELSE {})]
    /\ LoggerOnly

InitLogger ==
    /\ ManagerConstructed("js")
    /\ ComposerConstructed
    /\ PickingConstructed("SINGLE")
    /\ NoEffects
    /\ CycleIdle
    /\ LoggerConstructed

NextLogger ==
    \/ Enable
    \/ Disable
    \/ EnableTimeCollection
    \/ DisableTimeCollection
    \/ ClearTimeData
    \/ \E l \in Labels : Time(l)
    \/ \E l \in Labels : TimeEnd(l)
    \/ \E m \in {"log", "warn"} : Log(m)
    \/ Error
    \/ PrintSummary

SpecLogger == InitLogger /\ [][NextLogger]_vars

---------------------------------------------------------------------------
(* OutlineMultiEffect and OutlineEffect                                    *)

\* What the methods of the two effects leave alone.
EffectOnly ==
    /\ UNCHANGED <<composerVars, managerVars>>
    /\ UNCHANGED pickVars
    /\ UNCHANGED loggerVars
    /\ UNCHANGED cycleVars

\* Math.max(0, Math.min(length - 1, layerIndex))
ClampIndexNone(layerIndex, length) == layerIndex

ClampIndex(layerIndex, length) ==
    LET upper == IF layerIndex < length - 1 THEN layerIndex ELSE length - 1
    IN  IF upper > 0 THEN upper ELSE 0

\* this.layers[layerIndex], undefined outside the array.
LayerAt(layerIndex) ==
    IF layerIndex + 1 \in DOMAIN MultiLayers THEN MultiLayers[layerIndex + 1]
    ELSE -1

\* The key of a layer in layerObjectsMap, 0 if the map has no such key.
KeyOf(layer) ==
    IF \E k \in DOMAIN MultiLayers : MultiLayers[k] = layer
    THEN CHOOSE k \in DOMAIN MultiLayers : MultiLayers[k] = layer
    ELSE 0

\* The layers whose set holds the object.
LayersOf(map, object) ==
    {MultiLayers[k] : k \in {j \in DOMAIN map : object \in map[j]}}

\* hasObjects of update(): some layer's set is not empty.
MultiHasObjects(map) == \E k \in DOMAIN map : map[k] # {}

\* _removeObjectFromAllLayers(object)
RemoveObjectFromAllLayers(m, object) ==
    [m EXCEPT !.layerObjectsMap = [k \in DOMAIN @ |-> @[k] \ {object}],
              !.objectLayers[object] =
                  @ \ {MultiLayers[k] : k \in DOMAIN MultiLayers}]

\* _addObjectToLayer(object, layer): nothing if the map has no such layer.
AddObjectToLayer(m, object, layer) ==
    IF KeyOf(layer) = 0 THEN m
    ELSE [m EXCEPT !.layerObjectsMap[KeyOf(layer)] = @ \cup {object},
                   !.objectLayers[object] = @ \cup {0, layer}]

\* The idle record after a call that changed the layer sets from before to
\* after and set forceUpdate: a removal that empties them starts it, any
\* other setter ends it.
IdleAfterSetter(before, after) ==
    IF MultiHasObjects(before) /\ ~MultiHasObjects(after)
    THEN [emptied |-> TRUE, updates |-> 0, renders |-> 0]
    ELSE NotEmptied

\* The idle record after an update().
IdleAfterUpdate(idle, rendered) ==
    IF idle.emptied
    THEN [idle EXCEPT !.updates = @ + 1,
                      !.renders = IF rendered THEN @ + 1 ELSE @]
    ELSE idle

\* setOutlineColorLayer(object, layerIndex); setRedOutline, setGreenOutline
\* and setBlueOutline are the calls with layerIndex 0, 1 and 2.
SetOutlineColorLayer(object, layerIndex) ==
    /\ LET index == ClampIndex(layerIndex, Len(MultiLayers))
           removed == RemoveObjectFromAllLayers(multi, object)
           added == AddObjectToLayer(removed, object, LayerAt(index))
       IN  multi' = [added EXCEPT
                        !.forceUpdate = TRUE,
                        !.op = [name |-> "set", object |-> object,
                                index |-> layerIndex,
                                before |-> LayersOf(multi.layerObjectsMap,
                                                    object)],
                        !.idle = IdleAfterSetter(multi.layerObjectsMap,
                                                 added.layerObjectsMap)]
    /\ UNCHANGED outline
    /\ EffectOnly

\* removeOutline(object)
RemoveOutline(object) ==
    /\ LET removed == RemoveObjectFromAllLayers(multi, object)
       IN  multi' = [removed EXCEPT
                        !.forceUpdate = TRUE,
                        !.op = [name |-> "remove", object |-> object,
                                index |-> 0,
                                before |-> LayersOf(multi.layerObjectsMap,
                                                    object)],
                        !.idle = IdleAfterSetter(multi.layerObjectsMap,
                                                 removed.layerObjectsMap)]
    /\ UNCHANGED outline
    /\ EffectOnly

\* setOutlineColor(layerIndex, visibleColor, hiddenColor): forces an update
\* if the index names one of the three preset colours.
SetOutlineColor(layerIndex) ==
    /\ multi' = IF layerIndex >= 0 /\ layerIndex < 3
                THEN [multi EXCEPT !.forceUpdate = TRUE,
                                   !.op = [NoCall EXCEPT !.name = "color",
                                                         !.index = layerIndex],
                                   !.idle = NotEmptied]
                ELSE [multi EXCEPT !.op = [NoCall EXCEPT !.name = "color",
                                                         !.index = layerIndex]]
    /\ UNCHANGED outline
    /\ EffectOnly

\* The non-empty layers, in the order of this.layers.
RECURSIVE NonEmptyLayers(_, _)
NonEmptyLayers(map, k) ==
    IF k > Len(MultiLayers) THEN <<>>
    ELSE (IF map[k] # {} THEN <<MultiLayers[k]>> ELSE <<>>)
         \o NonEmptyLayers(map, k + 1)

\* OutlineMultiEffect.update: returns at once with no object and no forced
\* update; else renders the depth pass and, for every layer with objects,
\* the mask and the outline pass, then the blur pass if enabled.  The
\* objects' layers, the camera mask and the background are restored.
MultiUpdate ==
    /\ multi.idle.emptied => multi.idle.updates < MaxIdleUpdates
    /\ LET hasObjects == MultiHasObjects(multi.layerObjectsMap)
           skip == ~hasObjects /\ ~multi.forceUpdate
           perLayer == NonEmptyLayers(multi.layerObjectsMap, 1)
       IN  multi' = [multi EXCEPT
                        !.forceUpdate = IF skip THEN @ ELSE hasObjects,
                        !.op = [NoCall EXCEPT !.name = "update"],
                        !.pre = [force |-> multi.forceUpdate,
                                 selected |-> hasObjects],
                        !.renders = IF skip THEN NoRenders
                                    ELSE [depth |-> TRUE,
                                          mask |-> perLayer,
                                          edge |-> perLayer,
                                          blur |-> multi.blur],
                        !.idle = IdleAfterUpdate(@, ~skip)]
    /\ UNCHANGED outline
    /\ EffectOnly

\* The layer of new Selection().
OutlineLayer == 0

\* selectObject(object): this.selection.add(object)
SelectObject(object) ==
    /\ object \notin outline.selection
    /\ outline' = [outline EXCEPT !.selection = @ \cup {object},
                                  !.called = FALSE,
                                  !.idle = NotEmptied]
    /\ UNCHANGED multi
    /\ EffectOnly

\* deselectObject(object): this.selection.delete(object)
DeselectObject(object) ==
    /\ object \in outline.selection
    /\ outline' = [outline EXCEPT
                      !.selection = @ \ {object},
                      !.called = FALSE,
                      !.idle = IF outline.selection = {object}
                               THEN [emptied |-> TRUE, updates |-> 0,
                                     renders |-> 0]
                               ELSE @]
    /\ UNCHANGED multi
    /\ EffectOnly

\* OutlineEffect.update: with a forced update or a selection it renders
\* the depth pass (the selection hidden by setVisible, which records each
\* member's initialVisible), the mask pass, the outline pass and, if
\* enabled, the blur pass; the camera mask and the background are
\* restored.  It always ends with forceUpdate = selection.size > 0.
OutlineUpdate ==
    /\ outline.idle.emptied => outline.idle.updates < MaxIdleUpdates
    /\ LET selected == outline.selection # {}
           render == outline.forceUpdate \/ selected
       IN  outline' = [outline EXCEPT
                          !.saved = IF render THEN @ \cup outline.selection
                                    ELSE @,
                          !.forceUpdate = selected,
                          !.called = TRUE,
                          !.pre = [force |-> outline.forceUpdate,
                                   selected |-> selected],
                          !.renders = IF render
                                      THEN [depth |-> TRUE,
                                            mask |-> <<OutlineLayer>>,
                                            edge |-> <<OutlineLayer>>,
                                            blur |-> outline.blur]
                                      ELSE NoRenders,
                          !.idle = IdleAfterUpdate(@, render)]
    /\ UNCHANGED multi
    /\ EffectOnly

InitEffects ==
    /\ ManagerConstructed("js")
    /\ ComposerConstructed
    /\ PickingConstructed("SINGLE")
    /\ LoggerConstructed
    /\ CycleIdle
    /\ \E blur \in BOOLEAN : OutlineConstructed(blur) /\ MultiConstructed(blur)

\* The host's calls on an OutlineMultiEffect.
NextMulti ==
    \/ \E o \in Objects, i \in LayerIndexes : SetOutlineColorLayer(o, i)
    \/ \E o \in Objects : RemoveOutline(o)
    \/ \E i \in LayerIndexes : SetOutlineColor(i)
    \/ MultiUpdate

SpecMulti == InitEffects /\ [][NextMulti]_vars

\* The host's calls on an OutlineEffect.
NextOutline ==
    \/ \E o \in Objects : SelectObject(o)
    \/ \E o \in Objects : DeselectObject(o)
    \/ OutlineUpdate

\* Both effects in one page, the multi effect used through setRedOutline,
\* setGreenOutline, removeOutline and setOutlineColor(0, ...).
NextEffects ==
    \/ \E o \in Objects, i \in {0, 1} : SetOutlineColorLayer(o, i)
    \/ \E o \in Objects : RemoveOutline(o)
    \/ SetOutlineColor(0)
    \/ MultiUpdate
    \/ NextOutline

SpecEffects == InitEffects /\ [][NextEffects]_vars

---------------------------------------------------------------------------
(* DepthPickingPass                                                        *)

\* The promises a host asks for.
MaxPromises == 4

\* The calls of one resolve function that are counted.
MaxResolutions == 2

\* The x coordinates readDepth is given, in normalized device coordinates.
NdcValues == {-1, 0, 1}

\* this.renderTarget.width in the mode that copies the full depth texture.
TargetWidth == 2

\* readDepth: this.callback after the assignment of the new promise's
\* resolve function.
SupersededKeepsFirst(cb, new) == IF cb # 0 THEN cb ELSE new

Superseded(cb, new) == new

\* render: this.callback after a callback was invoked.
CallbackAfterRenderKept(cb) == cb

CallbackAfterRender(cb) == 0

\* readDepth(ndc): twice ndc.x * 0.5 + 0.5 is ndc.x + 1.
ReadDepth(ndc) ==
    /\ Len(promises) < MaxPromises
    /\ texelPosition' = ndc + 1
    /\ promises' = Append(promises, 0)
    /\ callback' = Superseded(callback, Len(promises) + 1)
    /\ lastPick' = NoPick
    /\ UNCHANGED pickMode
    /\ UNCHANGED <<composerVars, managerVars>>
    /\ UNCHANGED effectVars
    /\ UNCHANGED loggerVars
    /\ UNCHANGED cycleVars

\* render(renderer, inputBuffer, outputBuffer): Math.round of
\* texelPosition.x * renderTarget.width is (texelPosition * TargetWidth + 1)
\* \div 2 for the doubled coordinate.
PickRender ==
    /\ LET pending == callback # 0
           x == IF pickMode = "SINGLE" THEN 0
                ELSE (texelPosition * TargetWidth + 1) \div 2
           copies == (IF pickMode = "FULL" THEN 1 ELSE 0)
                     + (IF pending /\ pickMode = "SINGLE" THEN 1 ELSE 0)
       IN
         /\ promises' = IF pending
                        THEN [promises EXCEPT ![callback] = @ + 1]
                        ELSE promises
         /\ callback' = IF pending THEN CallbackAfterRender(callback)
                        ELSE callback
         /\ lastPick' = [called |-> TRUE, copies |-> copies,
                         readBacks |-> IF pending THEN <<x>> ELSE <<>>,
                         resolved |-> IF pending THEN <<callback>> ELSE <<>>]
    /\ \A k \in DOMAIN promises : promises[k] < MaxResolutions
    /\ UNCHANGED <<pickMode, texelPosition>>
    /\ UNCHANGED <<composerVars, managerVars>>
    /\ UNCHANGED effectVars
    /\ UNCHANGED loggerVars
    /\ UNCHANGED cycleVars

InitPicking ==
    /\ \E mode \in {"SINGLE", "FULL"} : PickingConstructed(mode)
    /\ NoEffects
    /\ LoggerConstructed
    /\ CycleIdle
    /\ ManagerConstructed("js")
    /\ ComposerConstructed

NextPicking ==
    \/ \E ndc \in NdcValues : ReadDepth(ndc)
    \/ PickRender

SpecPicking == InitPicking /\ [][NextPicking]_vars

---------------------------------------------------------------------------
(* Claims about EffectComposer.render, checked under SpecRender.           *)

AllEnabledAndSwapping ==
    \A k \in 1..Len(passes) : passes[k].enabled /\ passes[k].needsSwap

\* C1: when every pass is enabled and has needsSwap = true, the buffer
\* handed to a pass as inputBuffer is the buffer that was handed to the
\* pass rendered before it as outputBuffer; in particular this holds for
\* every two passes i and i+1 that render() calls.
C1_InputIsPreviousOutput ==
    AllEnabledAndSwapping =>
        \A k \in 1..(Len(calls) - 1) :
            calls[k + 1].input = calls[k].output

C1_Witness ==
    /\ AllEnabledAndSwapping
    /\ rpc = "idle"
    /\ Len(calls) = 3
    /\ calls[2].idx = 2 /\ calls[3].idx = 3
    /\ calls[2].input = OutputBufferId
    /\ calls[3].input = InputBufferId

\* The passes render() calls in a frame in which nothing throws: the
\* enabled ones, but for the DepthPass replaced by the shared MRT depth and
\* an MRT pass without MRT support.
Renderable(j) ==
    /\ passes[j].enabled
    /\ ~(useMRT /\ sharedDepthPass /\ j = FirstDepthPass(passes, 1))
    /\ ~(passes[j].kind = "MRTRenderPass" /\ ~useMRT)

\* C10: a throw of pass.render does not leave render(), and every later
\* pass that render() renders in a frame without a throw is still rendered
\* in the frame of the throw.
C10_ThrowIsContained ==
    rpc = "idle" =>
        /\ ~escaped
        /\ \A k \in 1..Len(calls) :
             calls[k].threw =>
                \A j \in (calls[k].idx + 1)..Len(passes) :
                    Renderable(j) => \E m \in 1..Len(calls) : calls[m].idx = j

C10_Witness ==
    /\ rpc = "idle"
    /\ ~escaped
    /\ Len(passes) = 3
    /\ Len(calls) = 3
    /\ calls[1].threw
    /\ ~calls[3].threw

\* C11: a pass whose render throws is a no-op for the frame: the pass
\* rendered next is handed the buffer pair the failed pass was handed, no
\* swap is made on behalf of the failed pass.
C11_FailedPassDoesNotSwap ==
    \A k \in 1..(Len(calls) - 1) :
        calls[k].threw =>
            /\ calls[k + 1].input = calls[k].input
            /\ calls[k + 1].output = calls[k].output

\* render() has returned since the pass list last changed.
RenderReturned == rpc = "idle" /\ ri = Len(passes) + 1

\* The passes render() has called pass.render on in the current call.
Rendered == {calls[c].idx : c \in 1..Len(calls)}

\* Claim C33: a render() that has returned left out an enabled DepthPass
\* only if an enabled MRT render pass that stands earlier in the list was
\* rendered in that same call.
C33_DepthSkippedOnlyAfterMRT ==
    (RenderReturned /\ hasRenderer) =>
        \A k \in 1..Len(passes) :
            (/\ passes[k].kind = "DepthPass"
             /\ passes[k].enabled
             /\ k \notin Rendered) =>
                \E j \in 1..(k - 1) :
                    /\ passes[j].kind = "MRTRenderPass"
                    /\ passes[j].enabled
                    /\ j \in Rendered

\* The buffer pair render() hands to its c-th pass.render call when only
\* rendered passes with needsSwap exchange the pair: the stored pair for
\* the first call, then the pair of the call before, exchanged if that
\* call's pass has needsSwap.
ExpectedBuffers(c) ==
    IF c = 1 THEN <<InputBufferId, OutputBufferId>>
    ELSE IF passes[calls[c - 1].idx].needsSwap
         THEN <<calls[c - 1].output, calls[c - 1].input>>
         ELSE <<calls[c - 1].input, calls[c - 1].output>>

\* Claim C36: render() calls no disabled pass, and the pair it hands to a
\* pass is the composer's stored pair exchanged once for every earlier
\* rendered pass with needsSwap: a disabled pass and a pass with
\* needsSwap = false exchange nothing, and every render() starts from the
\* stored pair.
C36_OnlySwappingPassesSwap ==
    \A c \in 1..Len(calls) :
        /\ passes[calls[c].idx].enabled
        /\ <<calls[c].input, calls[c].output>> = ExpectedBuffers(c)

\* A render() has called a pass with needsSwap = false, skipped a disabled
\* pass and then called another pass.
C36_Witness ==
    /\ RenderReturned
    /\ Len(passes) = 3
    /\ ~passes[2].enabled
    /\ Len(calls) = 2
    /\ ~passes[1].needsSwap
    /\ calls[2].idx = 3

\* An active mask pass, and a mask pass that clears the stencil test.
ActiveMask(pass) ==
    pass.kind = "MaskPass" /\ pass.enabled /\ ~pass.clearPassEnabled

ClearsMask(pass) == pass.kind = "MaskPass" /\ pass.clearPassEnabled

\* Claim C37: a pass is given stencilTest = true only if an active mask
\* pass was rendered earlier in the same render() and no clearing mask pass
\* was rendered between the two; a mask pass of an earlier render() does
\* not count.
C37_StencilFromThisFrameOnly ==
    \A c \in 1..Len(calls) :
        calls[c].stencil = StencilOn =>
            \E j \in 1..(c - 1) :
                /\ ActiveMask(passes[calls[j].idx])
                /\ \A m \in (j + 1)..(c - 1) :
                       ~ClearsMask(passes[calls[m].idx])

---------------------------------------------------------------------------
(* Claims about the pass list and the shared depth texture, checked under  *)
(* SpecComposer, and about rendering it, checked under SpecRenderer        *)

\* A pass of the list has needsDepthTexture set.
SomePassNeedsDepth == \E q \in InList(passIds) : NeedsDepthTexture(q)

\* C12: after any sequence of addPass, removePass, removeAllPasses and
\* dispose, if a pass of the list needs the depth texture then
\* composer.depthTexture is not null, it is the only shared depth texture
\* that is allocated, and every pass of the list that needs it holds it.
C12_NeededDepthTextureIsShared ==
    SomePassNeedsDepth =>
        /\ depthTexture # NoTexture
        /\ liveTextures = {depthTexture}
        /\ \A q \in InList(passIds) :
               NeedsDepthTexture(q) => passTexture[q] = depthTexture

\* Two passes that need the texture share the second texture the composer
\* created, the first one having been released.
C12_Witness ==
    /\ {"fx1", "fx2"} \subseteq InList(passIds)
    /\ texturesCreated = 2
    /\ depthTexture = 2
    /\ passTexture["fx1"] = 2
    /\ passTexture["fx2"] = 2

\* C13: a removePass that takes the only pass needing the depth texture out
\* of the list disposes the texture, leaves composer.depthTexture null and
\* leaves neither the removed pass nor a remaining pass with a reference to
\* it; a removePass after which a pass needing the texture remains keeps
\* the texture.
C13_RemovePassReleasesOrKeeps ==
    (/\ lastOp.op = "removePass"
     /\ lastOp.pass \in InList(lastOp.ids)
     /\ lastOp.texture # NoTexture) =>
        IF SomePassNeedsDepth
        THEN /\ depthTexture = lastOp.texture
             /\ depthTexture \in liveTextures
        ELSE NeedsDepthTexture(lastOp.pass) =>
                /\ depthTexture = NoTexture
                /\ lastOp.texture \notin liveTextures
                /\ passTexture[lastOp.pass] # lastOp.texture
                /\ \A q \in InList(passIds) :
                       passTexture[q] # lastOp.texture

\* The only pass needing the texture was removed from a list in which
\* another pass had been handed the texture too.
C13_Witness ==
    /\ lastOp.op = "removePass"
    /\ lastOp.pass = "fx1"
    /\ lastOp.texture # NoTexture
    /\ "scene" \in InList(passIds)
    /\ ~SomePassNeedsDepth
    /\ depthTexture = NoTexture

\* C20: with no MRT support recorded, addPass of a RenderPass as the first
\* pass puts that very pass in the list, and the next render() calls its
\* render exactly once, with the input and the output buffer.
C20_FirstRenderPassIsKept ==
    (/\ ~useMRT
     /\ lastOp.op = "addPass"
     /\ lastOp.ids = <<>>
     /\ PoolRecord(lastOp.pass).kind = "RenderPass") =>
        /\ passIds = <<lastOp.pass>>
        /\ passes = <<PoolRecord(lastOp.pass)>>
        /\ RenderReturned =>
              /\ Len(calls) = 1
              /\ calls[1].idx = 1
              /\ calls[1].input = InputBufferId
              /\ calls[1].output = OutputBufferId

C20_Witness ==
    /\ ~useMRT
    /\ lastOp.op = "addPass"
    /\ lastOp.ids = <<>>
    /\ lastOp.pass = "scene"
    /\ RenderReturned
    /\ Len(calls) = 1

\* Claim C21: when addPass hands a first RenderPass to setMRTRenderPass and
\* gets no MRT pass back, the list holds no MRT pass: the caller's pass is
\* inserted where the call asked, sized to the drawing buffer and
\* initialized, as on the path that never tries the substitution.
C21_FailedSubstitutionAddsOriginal ==
    (lastOp.op = "addPass" /\ lastOp.tried /\ ~mrtRenderPass) =>
        /\ MRTPassId \notin InList(passIds)
        /\ passIds = InsertAt(lastOp.ids, lastOp.index, lastOp.pass)
        /\ lastOp.entry = [pass |-> lastOp.pass, size |-> bufferSize,
                           initialized |-> TRUE]

\* A failed substitution has just left the scene pass alone in the list.
C21_Witness ==
    /\ lastOp.op = "addPass"
    /\ lastOp.tried
    /\ ~mrtRenderPass
    /\ passIds = <<"scene">>

\* Claim C24: every addPass makes the list one entry longer, so that a
\* sequence of addPass calls leaves as many entries as calls, and the
\* entry it added has been sized to the current drawing-buffer size.
C24_EachAddPassAddsOneSizedEntry ==
    lastOp.op = "addPass" =>
        /\ Len(passIds) = Len(lastOp.ids) + 1
        /\ Len(passes) = Len(passIds)
        /\ lastOp.entry.pass \in InList(passIds)
        /\ lastOp.entry.size = bufferSize

\* A second pass has just been added to a composer whose renderer was
\* replaced by one with a larger drawing buffer.
C24_Witness ==
    /\ lastOp.op = "addPass"
    /\ Len(passIds) = 2
    /\ bufferSize = 2
    /\ lastOp.entry.size = 2

\* The calls dispose() makes on the list ids and the texture dt it finds
\* begin with the passes in list order, the two buffers, then the texture
\* if there is one.
DisposeOrder(ids, dt, log) ==
    LET head == ids \o <<"inputBuffer", "outputBuffer">>
                    \o (IF dt # NoTexture THEN <<"depthTexture">> ELSE <<>>)
    IN  /\ Len(log) >= Len(head)
        /\ SubSeq(log, 1, Len(head)) = head

\* Claim C27: dispose() disposes every pass of the list, then the two
\* buffers, then the shared depth texture if there is one, and leaves the
\* list empty and depthTexture null; a dispose() that follows a dispose()
\* changes no composer state and disposes no pass.
C27_DisposeOrderAndRepeat ==
    /\ [](lastOp.op = "dispose" =>
            /\ DisposeOrder(lastOp.ids, lastOp.texture, lastOp.log)
            /\ passIds = <<>>
            /\ passes = <<>>
            /\ depthTexture = NoTexture)
    /\ [][(lastOp.op = "dispose" /\ lastOp'.op = "dispose") =>
            /\ lastOp'.ids = <<>>
            /\ \A k \in 1..Len(lastOp'.log) :
                   lastOp'.log[k] \notin PassObjects
            /\ UNCHANGED <<passes, passIds, depthTexture, passTexture,
                           liveTextures, texturesCreated, hasRenderer,
                           useMRT, mrtRenderPass, sharedDepthPass,
                           bufferSize, renderToScreen,
                           autoRenderToScreen>>]_vars

\* dispose() has just disposed two passes and the last shared depth texture
\* the composer creates.
C27_Witness ==
    /\ lastOp.op = "dispose"
    /\ Len(lastOp.ids) = 2
    /\ lastOp.texture # NoTexture
    /\ texturesCreated = MaxTextures

\* Claim C28: while autoRenderToScreen is true and the list is not empty,
\* after every addPass, removePass and removeAllPasses the last pass of
\* the list has renderToScreen = true and no other pass of the list has.
C28_OnlyLastRendersToScreen ==
    (/\ lastOp.op \in {"addPass", "removePass", "removeAllPasses"}
     /\ autoRenderToScreen
     /\ Len(passIds) > 0) =>
        \A k \in 1..Len(passIds) :
            renderToScreen[passIds[k]] = (k = Len(passIds))

\* The positions of the list that hold the scene pass or the MRT pass that
\* addPass put in its place.
ScenePositions ==
    {k \in 1..Len(passIds) : passIds[k] \in {"scene", MRTPassId}}

\* Claim C22: once a scene RenderPass has been added as the first pass,
\* every render() that returns has called render on it, or on the MRT pass
\* that took its place, whatever renderer setRenderer has attached since.
C22_SceneIsAlwaysRendered ==
    RenderReturned =>
        \A k \in ScenePositions : \E c \in 1..Len(calls) : calls[c].idx = k

\* Claim C26: the capability probe runs once in every setRenderer with a
\* renderer and nowhere else: no render() and no addPass since the last
\* such call has run it, and the recorded result changes only in a
\* setRenderer with a renderer.
C26_ProbeOnlyInSetRenderer ==
    /\ [](lastOp.probed =
            IF lastOp.op = "setRenderer" /\ lastOp.pass # "none"
            THEN 1 ELSE 0)
    /\ [][useMRT' # useMRT =>
            /\ lastOp'.op = "setRenderer"
            /\ lastOp'.pass # "none"
            /\ lastOp'.probed = 1]_vars

\* render() has returned on a composer whose last call attached a renderer
\* with MRT support to a list that holds the scene pass.
C26_Witness ==
    /\ lastOp.op = "setRenderer"
    /\ lastOp.pass = "mrt"
    /\ lastOp.probed = 1
    /\ useMRT
    /\ RenderReturned
    /\ Len(calls) > 0

---------------------------------------------------------------------------
(* Claims about the frames of the outline manager, checked under          *)
(* SpecManager.                                                            *)

\* The positions of the frame log that hold an event of the type.
Events(type) == {k \in 1..Len(frameLog) : frameLog[k].type = type}

\* C2: within a frame the depth-capture pass is rendered at most once,
\* however many consumers call manager.update().
C2_DepthAtMostOncePerFrame == Cardinality(Events("depth")) <= 1

\* C14: of the update() calls made within one dedup window, each at most
\* DedupWindow ms after the depth render that opened it, exactly one renders
\* the depth pass: two depth renders of a frame are separated by the moment
\* the first one's window ran out.
C14_OneDepthRenderPerWindow ==
    \A i \in Events("depth"), j \in Events("depth") :
        i < j => \E k \in Events("expired") : i < k /\ k < j

\* The positions of the frame log with an event of the type made by c.
EventsOf(type, c) == {k \in Events(type) : frameLog[k].who = c}

\* C16: every update() of a consumer registers its selection, then marks
\* its layer current and calls manager.update() exactly once, then renders
\* the edge-detection pass, then the blur pass if and only if blur is
\* enabled, and omits none of these steps.
C16_ConsumerUpdateRunsEveryStep ==
    \A k \in Events("end") :
        LET c == frameLog[k].who IN
        /\ Cardinality(EventsOf("mask", c)) = 1
        /\ Cardinality(EventsOf("edge", c)) = 1
        /\ \A j \in EventsOf("mask", c), e \in EventsOf("edge", c) :
               /\ j < e /\ e < k
               /\ frameLog[j].layer = selectionLayer[c]
               /\ selection[c] \subseteq selectionsByLayer[selectionLayer[c]]
        /\ blurEnabled[c] <=>
               \E e \in EventsOf("edge", c), b \in EventsOf("blur", c) :
                   e < b /\ b < k

\* C17: the cleanup (clearUnused) runs in a frame only after every consumer
\* of the manager has called update() in that frame, and once per frame:
\* at most once, and once in a frame in which every consumer has updated.
C17_CleanupAfterEveryConsumer ==
    /\ \A k \in Events("clear") :
           \A c \in Consumers \ {frameLog[k].who} :
               \E e \in EventsOf("end", c) : e < k
    /\ Cardinality(Events("clear")) <= 1
    /\ (\A c \in Consumers : EventsOf("end", c) # {}) =>
           Cardinality(Events("clear")) = 1

\* Claim C35: with the two consumers each updating once in every frame,
\* clearUnused is called once per frame: not before the second consumer
\* updates, and by the second consumer, with the union of both consumers'
\* selections as the active set; after it the static update counter is 0
\* and the static active set is empty.
C35_CleanupOncePerFrameWithUnion ==
    /\ (frameOpen /\ updated # Consumers) => Events("clear") = {}
    /\ (frameOpen /\ updated = Consumers) =>
          /\ Cardinality(Events("clear")) = 1
          /\ \A k \in Events("clear") :
                /\ frameLog[k].who = PassOrder[Len(PassOrder)]
                /\ frameLog[k].content =
                       UNION {selection[c] : c \in Consumers}
          /\ updateCounter = 0
          /\ activeObjects = {}

C35_Witness ==
    /\ frameOpen
    /\ updated = Consumers
    /\ selection["red"] = {"o1", "o2"}
    /\ selection["blue"] = {"o1"}
    /\ \E k \in Events("clear") : frameLog[k].content = {"o1", "o2"}

\* C18: an object that no consumer selects any more is, after finitely many
\* frames, a member of no layer selection of the manager, the layer of the
\* consumer that dropped it included.  Checked under SpecFrames.
C18_DroppedObjectIsCleared ==
    \A o \in Objects :
        <>[](\A c \in Consumers : o \notin selection[c]) =>
            <>[](\A l \in DOMAIN selectionsByLayer :
                     o \notin selectionsByLayer[l])

C23_BackgroundNullWhileRendering ==
    \A k \in Events("depth") \cup Events("mask") : frameLog[k].bg = Null

\* C3: the last mask render before a consumer's edge-detection render is
\* the mask render for that consumer's own layer: no mask render for
\* another layer lies between the two.
C3_EdgeReadsOwnMask ==
    \A k \in Events("edge") :
        \E j \in Events("mask") :
            /\ j < k
            /\ frameLog[j].layer = selectionLayer[frameLog[k].who]
            /\ \A i \in Events("mask") : ~(j < i /\ i < k)

C3_Witness ==
    /\ updated = Consumers
    /\ \A c \in Consumers :
         \E k \in Events("edge") :
            /\ frameLog[k].who = c
            /\ \E j \in Events("mask") :
                 j < k /\ frameLog[j].layer = selectionLayer[c]
    /\ selectionLayer["red"] # selectionLayer["blue"]

\* The consumers whose update() of this frame has returned.
Completed == {frameLog[k].who : k \in Events("end")}

\* The mask events of the frame, and the layer whose mask the shared
\* renderTargetMask holds once every effect of the EffectPass has updated.
LastMask == CHOOSE k \in Events("mask") : \A j \in Events("mask") : j <= k

\* Claim C32: when the EffectPass composites, after all its effects have
\* updated, the mask texture bound to a consumer's maskTexture uniform
\* holds the mask rendered for that consumer's own layer, for every
\* consumer that rendered a mask in this frame.
C32_CompositeReadsOwnMask ==
    (frameOpen /\ updated = Consumers) =>
        \A c \in Consumers :
            EventsOf("mask", c) # {} =>
                frameLog[LastMask].layer = selectionLayer[c]

\* C4: an object selected by both consumers is, in each frame, in the mask
\* render of each consumer whose update() has returned, for that consumer's
\* own layer and whichever consumer came first, and no clean-up of the
\* frame removes it from the selection of either consumer's layer.
C4_SharedObjectInBothMasks ==
    frameOpen =>
        \A o \in selection["red"] \cap selection["blue"] :
            /\ \A c \in Completed :
                 /\ \E k \in Events("mask") :
                      /\ frameLog[k].who = c
                      /\ frameLog[k].layer = selectionLayer[c]
                      /\ o \in frameLog[k].content
                 /\ selectionLayer[c] \in DOMAIN selectionsByLayer
                 /\ o \in selectionsByLayer[selectionLayer[c]]
            /\ \A k \in Events("clear") :
                 \A c \in Consumers :
                    <<selectionLayer[c], o>> \notin frameLog[k].removed

C4_Witness ==
    /\ frameOpen
    /\ Completed = Consumers
    /\ "o1" \in selection["red"] \cap selection["blue"]
    /\ frameLog[1].who = "blue"
    /\ \E k \in Events("clear") : frameLog[k].removed # {}

\* C5: in a frame with a mask render, a depth-capture render of the same
\* frame precedes the first mask render.
C5_DepthBeforeFirstMask ==
    \A k \in Events("mask") : \E j \in Events("depth") : j < k

---------------------------------------------------------------------------
(* The claim about clearUnused, checked under SpecClear.                   *)

\* C7: clearUnused removes no object of activeObjects, leaves the selection
\* of exceptLayer as it was, and removes from every other layer, the
\* default layer included, every member that is not in activeObjects.
C7_ClearUnusedContract ==
    lastClear.called =>
        LET before == lastClear.before
            after == lastClear.after
        IN
        /\ DOMAIN after = DOMAIN before
        /\ \A l \in DOMAIN before :
             \A o \in before[l] : o \in lastClear.active => o \in after[l]
        /\ lastClear.exceptLayer \in DOMAIN before =>
             after[lastClear.exceptLayer] = before[lastClear.exceptLayer]
        /\ \A l \in DOMAIN before \ {lastClear.exceptLayer} :
             after[l] = before[l] \cap lastClear.active

C7_Witness ==
    /\ lastClear.called
    /\ lastClear.exceptLayer = "layer21"
    /\ lastClear.active = {"o1"}
    /\ DOMAIN lastClear.before = Layers
    /\ lastClear.before["layer21"] = {"o2"}
    /\ lastClear.after["layer21"] = {"o2"}
    /\ lastClear.before[DefaultLayer] = {"o1", "o2"}
    /\ lastClear.after[DefaultLayer] = {"o1"}
    /\ lastClear.after["layer22"] = {}
    /\ lastClear.before["layer22"] = {"o2"}

\* Claim C25: the layer map always holds the default selection under the
\* default layer; a layer's entry, once there, is never removed and never
\* replaced, so getSelectionForLayer, which returns the entry, returns the
\* same Selection on every call for a layer; a Selection is created only
\* for a layer that had no entry; no two layers map to the same Selection.
C25_LayerEntriesAreStable ==
    /\ [](/\ DefaultLayer \in DOMAIN selectionIds
          /\ selectionIds[DefaultLayer] = DefaultSelection
          /\ DOMAIN selectionsByLayer = DOMAIN selectionIds
          /\ \A k, l \in DOMAIN selectionIds :
                 selectionIds[k] = selectionIds[l] => k = l)
    /\ [][/\ \A l \in DOMAIN selectionIds :
                 /\ l \in DOMAIN selectionIds'
                 /\ selectionIds'[l] = selectionIds[l]
          /\ selectionsCreated' - selectionsCreated =
                 Cardinality(DOMAIN selectionIds' \ DOMAIN selectionIds)]_vars

\* Both consumers' layers have an entry with objects in it, created after
\* the default selection, and clearUnused has run.
C25_Witness ==
    /\ DOMAIN selectionIds = Layers
    /\ selectionsCreated = Cardinality(Layers)
    /\ \A l \in Layers \ {DefaultLayer} : selectionsByLayer[l] # {}
    /\ lastClear.called

\* Claim C38: the setVisible(true) that follows a setVisible(false) of a
\* selection leaves every member's visible flag as it was immediately
\* before the setVisible(false), on every cycle.
C38_ShowRestoresVisibility ==
    [][(lastCycle.phase = "hidden" /\ lastCycle'.phase = "shown") =>
          \A o \in selectionsByLayer[lastCycle.layer] :
              visible'[o] = lastCycle.before[o]]_vars

---------------------------------------------------------------------------
(* Claims about a call of update(), checked under SpecUpdate.             *)

\* C6, as stated: an update() that returns true renders the mask once,
\* with the camera narrowed to the layer marked current, or to the default
\* layer when no layer is marked current.
C6_MaskLayerIsCurrentOrDefault ==
    lastUpdate.outcome = "true" =>
        lastUpdate.maskLayers =
            <<{IF lastUpdate.cur # Null THEN lastUpdate.cur ELSE DefaultLayer}>>

\* C6, amended: an update() that returns true renders the mask once, with
\* the camera narrowed to the layer marked current when the manager holds a
\* non-empty selection for that layer, and to the default layer otherwise.
C6_MaskLayerIsCurrentIfSelected ==
    lastUpdate.outcome = "true" =>
        lastUpdate.maskLayers =
            <<{IF lastUpdate.cur # Null /\ lastUpdate.curSel # {}
               THEN lastUpdate.cur ELSE DefaultLayer}>>

C6_Witness ==
    /\ lastUpdate.outcome = "true"
    /\ lastUpdate.cur = "layer21"
    /\ lastUpdate.curSel = {}
    /\ lastUpdate.maskLayers = <<{DefaultLayer}>>

\* C15: update() returns false, renders nothing and changes no state
\* exactly when the needs-update flag is unset and every layer's selection
\* is empty; in every other case, the first update() after setNeedsUpdate()
\* with all selections empty included, it renders, returns true and leaves
\* the flag unset.
C15_ReturnsFalseOnlyWhenIdle ==
    lastUpdate.outcome # "none" =>
        /\ (lastUpdate.outcome = "false") <=>
               (~lastUpdate.preNeeds /\ ~lastUpdate.preObjects)
        /\ lastUpdate.outcome = "false" =>
               lastUpdate.renders = 0 /\ lastUpdate.unchanged
        /\ lastUpdate.outcome # "false" =>
               /\ lastUpdate.outcome = "true"
               /\ lastUpdate.renders >= 1
               /\ ~needsUpdate

\* The first update() after setNeedsUpdate() with every selection empty.
C15_Witness ==
    /\ lastUpdate.outcome = "true"
    /\ lastUpdate.preNeeds
    /\ ~lastUpdate.preObjects
    /\ ~needsUpdate

\* Claim C34: an update() of this manager that follows a depth render of
\* another manager, and renders at all, renders its own depth pass: the
\* other manager's depth render does not make it skip.
C34_TokenIsPerManager ==
    [][(/\ lastUpdate.caller = "other"
        /\ lastUpdate.depth
        /\ lastUpdate'.caller # "other"
        /\ lastUpdate'.outcome = "true") => lastUpdate'.depth]_vars

\* C9: after an update() that returns, true or false, with the depth
\* render made or skipped, the camera's layer mask and the scene background
\* are what they were before the call.
C9_ReturnRestoresCameraAndBackground ==
    lastUpdate.outcome \in {"true", "false"} =>
        /\ lastUpdate.postCam = lastUpdate.preCam
        /\ lastUpdate.postBg = lastUpdate.preBg

C9_Witness ==
    /\ lastUpdate.outcome = "true"
    /\ ~lastUpdate.depth
    /\ lastUpdate.maskLayers = <<{"layer22"}>>
    /\ lastUpdate.preCam = Layers
    /\ lastUpdate.postCam = Layers
    /\ lastUpdate.postBg = "sky"

---------------------------------------------------------------------------
(* The claim about failing renders, checked under SpecUpdateThrow.         *)

\* C8: when the depth render or the mask render throws inside update(),
\* the camera's layer mask, the scene background and the visibility of the
\* selected objects are, as control leaves update(), what they were before
\* the call.
C8_ThrowRestoresSharedState ==
    lastUpdate.outcome = "throw" =>
        /\ lastUpdate.postCam = lastUpdate.preCam
        /\ lastUpdate.postBg = lastUpdate.preBg
        /\ lastUpdate.postVis = lastUpdate.preVis

---------------------------------------------------------------------------
(* Claims about DepthPickingPass, checked under SpecPicking.               *)

\* The promises whose resolve function the step calls.
ResolvedInStep ==
    {k \in DOMAIN promises : promises'[k] # promises[k]}

\* Claim C29: a render() resolves at most one promise, and only the one of
\* the most recent readDepth(); a promise that a later readDepth() has
\* superseded is never resolved.
C29_OnlyLatestPromiseResolves ==
    [][/\ Cardinality(ResolvedInStep) <= 1
       /\ \A k \in ResolvedInStep :
              /\ k = Len(promises)
              /\ promises'[k] = promises[k] + 1
              /\ lastPick'.resolved = <<k>>]_vars

\* A render() has resolved the third promise after the first two were
\* superseded unresolved.
C29_Witness ==
    /\ Len(promises) = 3
    /\ promises = <<0, 0, 1>>
    /\ lastPick.called
    /\ lastPick.resolved = <<3>>

\* Claim C30: a promise is resolved only in a render(); the first render()
\* after a readDepth() resolves that call's promise, which is never
\* resolved again; a render() that finds no pending request reads back no
\* pixel and calls no resolve function.
C30_ResolvedOnceInNextRender ==
    /\ [](\A k \in DOMAIN promises : promises[k] <= 1)
    /\ [][ResolvedInStep # {} => lastPick'.called]_vars
    /\ [][(lastPick'.called /\ ~lastPick.called /\ callback # 0) =>
            /\ callback = Len(promises)
            /\ promises'[callback] = 1
            /\ lastPick'.resolved = <<callback>>
            /\ Len(lastPick'.readBacks) = 1]_vars
    /\ [][(lastPick'.called /\ callback = 0) =>
            /\ lastPick'.readBacks = <<>>
            /\ lastPick'.resolved = <<>>
            /\ promises' = promises]_vars

\* Two promises have been resolved, each by the render() after its
\* readDepth(), and the latest render() found no request pending.
C30_Witness ==
    /\ promises = <<1, 1>>
    /\ lastPick.called
    /\ lastPick.readBacks = <<>>
    /\ callback = 0

---------------------------------------------------------------------------
(* Claims about PerformanceLogger, checked under SpecLogger               *)

\* Claim C31: logging is off by default.  As long as enableLogs() has not
\* been called, no call of log, warn, time or timeEnd has printed
\* anything, no timer is recorded and no time sample is stored.
C31_SilentUntilEnabled ==
    ~logger.enableCalled =>
        /\ logger.console \cap {"log", "warn", "time", "timeEnd"} = {}
        /\ logger.timers = {}
        /\ \A l \in Labels : logger.timeData[l] = 0

---------------------------------------------------------------------------
(* Claims about OutlineMultiEffect and OutlineEffect, checked under        *)
(* SpecMulti and SpecEffects                                               *)

\* Claim C39: an object is in the set of at most one layer; after a call
\* that sets its outline colour layer it is in the set of exactly
\* layers[i], with the index i brought into 0 .. layers.length - 1; after
\* removeOutline it is in no set.
C39_ObjectInOneClampedLayer ==
    /\ \A o \in Objects :
           Cardinality(LayersOf(multi.layerObjectsMap, o)) <= 1
    /\ multi.op.name = "set" =>
           LET i == multi.op.index
               clamped == IF i < 0 THEN 0
                          ELSE IF i > Len(MultiLayers) - 1
                               THEN Len(MultiLayers) - 1
                               ELSE i
           IN  LayersOf(multi.layerObjectsMap, multi.op.object) =
                   {MultiLayers[clamped + 1]}
    /\ multi.op.name = "remove" =>
           LayersOf(multi.layerObjectsMap, multi.op.object) = {}

\* An object that was in the first layer's set has been moved by a call
\* whose index lies beyond the last layer.
C39_Witness ==
    /\ multi.op.name = "set"
    /\ multi.op.index = Len(MultiLayers)
    /\ multi.op.before = {MultiLayers[1]}
    /\ \E o \in Objects \ {multi.op.object} :
           LayersOf(multi.layerObjectsMap, o) # {}

\* Whether an update() made the depth, the mask and the outline render.
RendersAll(r) == r.depth /\ r.mask # <<>> /\ r.edge # <<>>

RendersNone(r) == ~r.depth /\ r.mask = <<>> /\ r.edge = <<>>

\* Claim C40: update() makes its depth, mask and outline renders if
\* forceUpdate is true or an object is selected, and none of them
\* otherwise; once the last selected object has been removed, exactly one
\* of the update() calls that follow renders, the first, until an object
\* is selected again or a setter forces an update.  For both effects.
C40_RendersIffForcedOrSelected ==
    /\ outline.called =>
           IF outline.pre.force \/ outline.pre.selected
           THEN RendersAll(outline.renders)
           ELSE RendersNone(outline.renders)
    /\ multi.op.name = "update" =>
           IF multi.pre.force \/ multi.pre.selected
           THEN RendersAll(multi.renders)
           ELSE RendersNone(multi.renders)
    /\ \A idle \in {outline.idle, multi.idle} :
           (idle.emptied /\ idle.updates >= 1) => idle.renders = 1

=============================================================================
